---- MODULE Spec2Model ----
(***************************************************************************)
(* A state-machine model of HiCore's MHIMModel (crslab/model/crs/mhim/     *)
(* mhim.py): construction, the recommendation path (recommend ->            *)
(* encode_user) and the conversation path (converse -> encode_session,     *)
(* encode_user, decode_forced / decode_greedy).                            *)
(*                                                                         *)
(* Tensors produced by learned layers are kept as symbolic terms: a user   *)
(* vector records which branch of encode_user built it and from which ids, *)
(* a session row records whether it is a zero row or an embedding lookup.  *)
(* Tokens chosen by the decoder's arg-max are a nondeterministic choice.   *)
(***************************************************************************)
EXTENDS Integers, Sequences, FiniteSets, TLC

VARIABLES
    phase,               \* "new" | "ready" | "failed"
    opt,                 \* the opt dict handed to __init__
    dataset,             \* self.dataset
    pooling,             \* self.pooling
    extension_strategy,  \* self.extension_strategy
    longest_label,       \* self.longest_label
    batch,               \* the batch object the dataloader handed over
    ret,                 \* outcome of the last recommend()/converse() call
    longest_resp,        \* longest response a non-test converse() has decoded
    graphs,              \* self.adj and the nine self.<type>_H_<view> dicts
    net,                 \* net_matrix, the relation matrix S of a builder call
    inter,               \* inter_matrix, the interaction matrix Y of that call
    motif,               \* what that call computed and returned
    flat,                \* a call of flatten(): its argument and the list it returned
    shuffle,             \* the generator and the shuffles of the last self-supervision call
    logits,              \* the logits and the prediction of the last decoded position
    system,              \* the optimizer and early-stopping attributes of the BaseSystem
    evaluator            \* the StandardEvaluator of the system

vars == <<phase, opt, dataset, pooling, extension_strategy, longest_label,
          batch, ret, longest_resp, graphs, net, inter, motif, flat, shuffle, logits, system, evaluator>>

\* the variables of MHIMModel and of a builder call
model_vars == <<phase, opt, dataset, pooling, extension_strategy,
                longest_label, batch, ret, longest_resp, graphs, net, inter,
                motif>>

\* the variables of the other components: the model's own calls leave them
aside == <<flat, shuffle, logits, system, evaluator>>

----------------------------------------------------------------------------
(* Bounds of the model *)

MaxRelated == 12
MaxExtended == 4
MaxShort == 1
MaxContext == 2
MaxBatch == 2
MaxResp == 3
MaxLabel == 2
MaxNodes == 3
MaxUsers == 2
MaxWeight == 2
MaxList == 3
MaxInputs == 3
MaxCalls == 2
MaxUpdateFreq == 3
MaxImpatience == 2
MaxEpochs == 4
MaxBackward == 6
MaxGen == 2
MaxRec == 2

----------------------------------------------------------------------------
(* Program constants *)

kg_emb_dim == 300

NoneVal == "None"

SupportedDatasets == {"HReDial", "HTGReDial", "OpenDialKG", "DuRecDial"}

SupportedPoolings == {"Attn", "Mean"}

\* vocab['tok2ind'] of '__start__' and '__end__'; larger ids are words
start_token_idx == 1

end_token_idx == 2

Min(a, b) == IF a < b THEN a ELSE b

Max(a, b) == IF a > b THEN a ELSE b

----------------------------------------------------------------------------
(* Inputs: opt dicts and batches *)

DefaultOpt ==
    [dataset |-> "HReDial", pooling |-> "Attn",
     extension_strategy |-> "Adaptive", longest_label |-> MaxLabel]

\* opt dicts: each differs from DefaultOpt in at most one key.  NoneVal is
\* what opt.get(key, None) yields for a missing key.
Opts ==
    {[DefaultOpt EXCEPT !.dataset = d] :
        d \in SupportedDatasets \cup {"Other", NoneVal}}
    \cup {[DefaultOpt EXCEPT !.pooling = p] :
        p \in SupportedPoolings \cup {"Other", NoneVal}}
    \cup {[DefaultOpt EXCEPT !.extension_strategy = s] :
        s \in {"Adaptive", "Random", "Other", NoneVal}}
    \cup {[DefaultOpt EXCEPT !.longest_label = l] : l \in 1..MaxLabel}

RelatedItems(n) == [j \in 1..n |-> IF j % 2 = 1 THEN 5 ELSE 9]

ExtendedItems(m) == [j \in 1..m |-> 20 + j]

ContextEntities(c) == [j \in 1..c |-> 30 + j]

RelatedEntities(e) == [j \in 1..e |-> 40 + j]

\* a response tensor row of length L: word tokens closed by the end token
ResponseRow(L) == [j \in 1..L |-> IF j = L THEN end_token_idx ELSE end_token_idx + j]

Session(n, m, c, e) ==
    [related_items |-> RelatedItems(n), extended_items |-> ExtendedItems(m),
     context_entities |-> ContextEntities(c), related_entities |-> RelatedEntities(e)]

\* sessions whose related-item and extension lists sweep every length
SweepSessions ==
    {Session(n, m, 0, 0) : n \in 0..MaxRelated, m \in 0..MaxExtended}

\* short sessions, combined into multi-session recommendation batches: each
\* list is empty or holds MaxShort ids
ShortSessions ==
    {Session(n, m, c, e) : n \in {0, MaxShort}, m \in {0, MaxShort},
                           c \in {0, MaxShort}, e \in {0, MaxShort}}

\* sessions of conversation batches (extended_items is not read by converse)
ConvSessions ==
    {Session(n, 0, c, 0) : n \in {0, MaxShort}, c \in {0, 1, MaxContext}}

BatchesOf(S) == UNION {[1..b -> S] : b \in 1..MaxBatch}

MakeBatch(stage, sessions, L) ==
    [stage |-> stage,
     related_items |-> [i \in DOMAIN sessions |-> sessions[i].related_items],
     extended_items |-> [i \in DOMAIN sessions |-> sessions[i].extended_items],
     context_entities |-> [i \in DOMAIN sessions |-> sessions[i].context_entities],
     related_entities |-> [i \in DOMAIN sessions |-> sessions[i].related_entities],
     response |-> [i \in DOMAIN sessions |-> ResponseRow(L)]]

RecBatches ==
    {MakeBatch("rec", <<s>>, 0) : s \in SweepSessions}
    \cup {MakeBatch("rec", ss, 0) : ss \in BatchesOf(ShortSessions)}

ConvBatches ==
    {MakeBatch("conv", ss, L) : ss \in BatchesOf(ConvSessions), L \in {1, 2, MaxResp}}

NoBatch == MakeBatch("none", <<>>, 0)

bsz(b) == Len(b.related_items)

----------------------------------------------------------------------------
(* Results of a call *)

NoRet ==
    [op |-> "none", mode |-> "none", raised |-> "none", before |-> NoBatch,
     user |-> <<>>, session |-> <<>>, mask |-> <<>>, inputs |-> <<>>,
     positions |-> 0, xs |-> <<>>, steps |-> 0, returns |-> "nothing",
     views |-> <<>>, type |-> "none", lists |-> <<>>, rows |-> <<>>,
     hyper |-> [H_s |-> <<>>, H_j |-> <<>>, H_p |-> <<>>],
     ss_loss |-> <<>>]


----------------------------------------------------------------------------
(* encode_user: one user vector per session *)

\* an element of the argument of flatten(): an id, or a list of ids
\* (type(li) == type([]))
Id(i) == [is_list |-> FALSE, value |-> i]

IdList(li) == [is_list |-> TRUE, value |-> li]

flatten_nested_lists_only(inputs) ==
    UNION {IF inputs[j].is_list
           THEN {inputs[j].value[k] : k \in DOMAIN inputs[j].value}
           ELSE {} : j \in DOMAIN inputs}

\* the set `outputs` of flatten() after its loop: the members of each list
\* of inputs and each element that is no list
flatten_nested(inputs) ==
    UNION {IF inputs[j].is_list
           THEN {inputs[j].value[k] : k \in DOMAIN inputs[j].value}
           ELSE {inputs[j].value} : j \in DOMAIN inputs}

\* list(outputs): the members of the set, each once, in the order the set
\* iterates, which the language leaves open
list_of_set(outputs) ==
    {l \in [1..Cardinality(outputs) -> outputs] :
        \A a, b \in 1..Cardinality(outputs) : a # b => l[a] # l[b]}

\* flatten() of a list of ids (duplicates collapse), as a set
flatten(inputs) == flatten_nested([j \in DOMAIN inputs |-> Id(inputs[j])])

encode_gating_unguarded(lists) == [kind |-> "fused", nodes |-> lists]

\* encode_gating(): None for an empty list, else one fused row per node
encode_gating(lists) ==
    IF lists = {} THEN [kind |-> "None", nodes |-> {}]
    ELSE [kind |-> "fused", nodes |-> lists]

UserVector(op, items, entitys, words, raw_words) ==
    [op |-> op, dim |-> kg_emb_dim, items |-> items, entitys |-> entitys,
     words |-> words, raw_words |-> raw_words]

\* torch.zeros(self.user_emb_dim)
zeros_user == UserVector("zeros", {}, {}, {}, <<>>)

cold_start_pooled_only(words_list) ==
    UserVector(IF pooling = "Attn" THEN "kg_attn" ELSE "mean", {}, {}, {}, words_list)

cold_start_user_mean(words_list) ==
    IF Len(words_list) = 0 THEN zeros_user
    ELSE UserVector("mean", {}, {}, {}, words_list)

\* the COLD START branch of encode_user
cold_start_user(words_list) ==
    IF Len(words_list) = 0 THEN zeros_user
    ELSE UserVector(IF pooling = "Attn" THEN "kg_attn" ELSE "mean",
                    {}, {}, {}, words_list)

\* _attention_and_gating(): the pooled fusion of the non-None view outputs
attention_and_gating(items_repr, entitys_repr, words_repr) ==
    UserVector(IF pooling = "Attn" THEN "attn_fusion" ELSE "mean_fusion",
               items_repr.nodes, entitys_repr.nodes, words_repr.nodes, <<>>)

user_repr(entitys_list, items_list, words_list) ==
    IF Cardinality(flatten(items_list)) = 0
    THEN cold_start_user(words_list)
    ELSE attention_and_gating(encode_gating(flatten(items_list)),
                              encode_gating(flatten(entitys_list)),
                              encode_gating(flatten(words_list)))

encode_user(batch_related_entities, batch_related_items, batch_context_entities) ==
    [i \in DOMAIN batch_related_items |->
        user_repr(batch_related_entities[i], batch_related_items[i],
                  batch_context_entities[i])]

----------------------------------------------------------------------------
(* recommend: the extension policy *)

truncate_ceil(n_related, n_extended) ==
    Min(Max(2, (n_related + 3) \div 4), n_extended)

\* truncate = min(int(max(2, int(len(related) / 4))), len(extended))
truncate(n_related, n_extended) ==
    Min(Max(2, n_related \div 4), n_extended)

adaptive_extension_tail(related, extended, k) ==
    related \o SubSeq(extended, Len(extended) - k + 1, Len(extended))

\* related_items[i] + extended_items[i][:truncate]
adaptive_extension(related, extended, k) ==
    related \o SubSeq(extended, 1, k)

random_sample_with_replacement(population, k) ==
    {[j \in 1..k |-> population[p[j]]] : p \in [1..k -> 1..Len(population)]}

\* random.sample raises ValueError("Sample larger than population or is
\* negative")
sample_raises(population, k) == k > Len(population) \/ k < 0

\* random.sample(population, k): k entries at distinct positions, in any order
random_sample(population, k) ==
    {[j \in 1..k |-> population[p[j]]] :
        p \in {q \in [1..k -> 1..Len(population)] :
                  \A a, b \in 1..k : a # b => q[a] # q[b]}}

\* the lists one session's related_items may be rebound to
extension_choices(related, extended) ==
    LET k == truncate(Len(related), Len(extended))
    IN IF extension_strategy = "Adaptive"
       THEN {adaptive_extension(related, extended, k)}
       ELSE {related \o s : s \in random_sample(extended, k)}

----------------------------------------------------------------------------
(* encode_session: the padded session sequence and its mask *)

zero_row == [kind |-> "zero", id |-> 0]

\* kg_embedding[context_entities]: one raw embedding row per listed id
raw_rows(context_entities) ==
    [j \in DOMAIN context_entities |-> [kind |-> "raw", id |-> context_entities[j]]]

\* one pass of the loop over the batch: None, the raw context rows, or the
\* read of the unassigned local entitys_list on the non-cold-start path
session_repr(session_related_items, context_entities) ==
    IF Cardinality(flatten(session_related_items)) = 0
    THEN IF Len(context_entities) = 0
         THEN [kind |-> "None", rows |-> <<>>]
         ELSE [kind |-> "rows", rows |-> raw_rows(context_entities)]
    ELSE [kind |-> "UnboundLocalError", rows |-> <<>>]

\* torch.cat((zero_repr, session_repr_list[i]), dim=0)
pad_left(rows, batch_seq_len) ==
    [j \in 1..(batch_seq_len - Len(rows)) |-> zero_row] \o rows

mask_right(size, batch_seq_len) ==
    [j \in 1..batch_seq_len |-> j <= size]

\* [False] * (batch_seq_len - size) + [True] * size
mask_left(size, batch_seq_len) ==
    [j \in 1..batch_seq_len |-> j > batch_seq_len - size]

SetMax(S) == CHOOSE x \in S : \A y \in S : y <= x

encode_session(batch_related_items, batch_context_entities) ==
    LET list == [i \in DOMAIN batch_related_items |->
                    session_repr(batch_related_items[i], batch_context_entities[i])]
        sizes == {Len(list[i].rows) : i \in {j \in DOMAIN list : list[j].kind = "rows"}}
    IN IF \E i \in DOMAIN list : list[i].kind = "UnboundLocalError"
       THEN [raised |-> "UnboundLocalError", session |-> <<>>, mask |-> <<>>]
       ELSE IF sizes = {}
       THEN [raised |-> "ValueError", session |-> <<>>, mask |-> <<>>]
       ELSE LET batch_seq_len == SetMax(sizes)
            IN [raised |-> "none",
                session |-> [i \in DOMAIN list |->
                    IF list[i].kind = "None"
                    THEN [j \in 1..batch_seq_len |-> zero_row]
                    ELSE pad_left(list[i].rows, batch_seq_len)],
                mask |-> [i \in DOMAIN list |->
                    IF list[i].kind = "None"
                    THEN [j \in 1..batch_seq_len |-> FALSE]
                    ELSE mask_left(Len(list[i].rows), batch_seq_len)]]

----------------------------------------------------------------------------
(* decoding *)

forced_inputs_unshifted(resp_row) == <<start_token_idx>> \o resp_row

\* torch.cat([self._starts(bsz), resp.narrow(1, 0, seqlen - 1)], 1), one row
forced_inputs(resp_row) ==
    <<start_token_idx>> \o SubSeq(resp_row, 1, Len(resp_row) - 1)

\* decode_forced: the decoder yields one latent, hence one logit position
\* and one prediction, per input position
decode_forced(resp) ==
    LET inputs == [r \in DOMAIN resp |-> forced_inputs(resp[r])]
    IN [inputs |-> inputs, positions |-> Len(inputs[1])]

word_token == end_token_idx + 1

\* the arg-max of each greedy step, per row: a word until the row's first end
\* token (first_end[r], or never when it exceeds the number of steps), a word
\* again after it
greedy_preds(first_end, step) ==
    [r \in DOMAIN first_end |->
        IF first_end[r] = step THEN end_token_idx ELSE word_token]

all_finished_last_token(xs) ==
    \A r \in DOMAIN xs : xs[r][Len(xs[r])] = end_token_idx

\* ((xs == self.end_token_idx).sum(dim=1) > 0).sum().item() == bsz
all_finished(xs) ==
    \A r \in DOMAIN xs : \E j \in DOMAIN xs[r] : xs[r][j] = end_token_idx

RECURSIVE greedy_loop(_, _, _, _)
\* for i in range(self.longest_label): decode a token per row, append it to
\* xs, break when all_finished
greedy_loop(xs, i, limit, first_end) ==
    IF i >= limit THEN [xs |-> xs, steps |-> i]
    ELSE LET preds == greedy_preds(first_end, i + 1)
             next_xs == [r \in DOMAIN xs |-> Append(xs[r], preds[r])]
         IN IF all_finished(next_xs)
            THEN [xs |-> next_xs, steps |-> i + 1]
            ELSE greedy_loop(next_xs, i + 1, limit, first_end)

\* decode_greedy: xs starts as one start token per row
decode_greedy(batch_size, first_end) ==
    greedy_loop([r \in 1..batch_size |-> <<start_token_idx>>], 0,
                longest_label, first_end)

----------------------------------------------------------------------------
(* sparse matrices (scipy.sparse) with integer weights *)

\* a rows x cols matrix; at[i, j] is the weight of entry (i, j), 0 when the
\* sparse matrix stores nothing there
Matrix(r, c, Entry) ==
    [rows |-> r, cols |-> c,
     at |-> [i \in 0..(r - 1), j \in 0..(c - 1) |-> Entry[i, j]]]

same_shape(A, B) == A.rows = B.rows /\ A.cols = B.cols

\* the one member of a singleton set: {e(x) : x \in {v}} computes v once and
\* e from its value, however often e refers to x
the(singleton) == CHOOSE x \in singleton : TRUE

\* A.T
T(A) ==
    the({Matrix(a.cols, a.rows, [i \in Nat, j \in Nat |-> a.at[j, i]]) : a \in {A}})

\* A.multiply(B): the element-wise (Hadamard) product
multiply(A, B) ==
    the({Matrix(a.rows, a.cols, [i \in Nat, j \in Nat |-> a.at[i, j] * b.at[i, j]]) :
            a \in {A}, b \in {B}})

RECURSIVE dot_sum(_, _, _, _, _)
dot_sum(A, B, i, j, k) ==
    IF k < 0 THEN 0 ELSE A.at[i, k] * B.at[k, j] + dot_sum(A, B, i, j, k - 1)

\* A.dot(B): the matrix product
dot(A, B) ==
    the({Matrix(a.rows, b.cols, [i \in Nat, j \in Nat |-> dot_sum(a, b, i, j, a.cols - 1)]) :
            a \in {A}, b \in {B}})

\* A + B and A - B
plus(A, B) ==
    the({Matrix(a.rows, a.cols, [i \in Nat, j \in Nat |-> a.at[i, j] + b.at[i, j]]) :
            a \in {A}, b \in {B}})

minus(A, B) ==
    the({Matrix(a.rows, a.cols, [i \in Nat, j \in Nat |-> a.at[i, j] - b.at[i, j]]) :
            a \in {A}, b \in {B}})

RECURSIVE row_sum(_, _, _)
row_sum(A, i, j) == IF j < 0 THEN 0 ELSE A.at[i, j] + row_sum(A, i, j - 1)

RECURSIVE total_sum(_, _)
total_sum(A, i) == IF i < 0 THEN 0 ELSE row_sum(A, i, A.cols - 1) + total_sum(A, i - 1)

\* A.sum(axis=1): one sum per row
sum_axis1(A) ==
    the({[i \in 0..(a.rows - 1) |-> row_sum(a, i, a.cols - 1)] : a \in {A}})

\* H.multiply(H > 1): the entries greater than 1, the others dropped
greater_than_one(H) ==
    the({Matrix(h.rows, h.cols,
                [i \in Nat, j \in Nat |-> IF h.at[i, j] > 1 THEN h.at[i, j] ELSE 0]) :
            h \in {H}})

----------------------------------------------------------------------------
(* _build_motif_adj_matrix and mat2adj *)

row_normalize_total(H) ==
    the({[weights |-> h, sums |-> [i \in 0..(h.rows - 1) |-> total_sum(h, h.rows - 1)]] :
            h \in {H}})

\* H.multiply(1.0 / (H.sum(axis=1) + 1e-7).reshape(-1, 1)): entry (i, j) of
\* the result is weights.at[i, j] / (sums[i] + 1e-7), kept as the pair of its
\* integer numerator and the integer part of its denominator
row_normalize(H) == the({[weights |-> h, sums |-> sum_axis1(h)] : h \in {H}})

geq_half_without_epsilon(weight, sum) ==
    IF sum >= 0 THEN 2 * weight >= sum ELSE 2 * weight <= sum

\* weight / (row_sum + 1e-7) >= 0.5 for integers weight and row_sum: the
\* denominator is positive iff row_sum >= 0, and no integer lies strictly
\* between row_sum and row_sum + 1e-7
geq_half(weight, sum) ==
    IF sum >= 0 THEN 2 * weight >= sum + 1 ELSE 2 * weight <= sum

\* the entries of row node1 that pass `if weight >= 0.5`
passing(mat, node1) ==
    {node2 \in 0..(mat.weights.cols - 1) :
        /\ mat.weights.at[node1, node2] # 0
        /\ geq_half(mat.weights.at[node1, node2], mat.sums[node1])}

mat2adj_self_loops(mat) ==
    the({[node1 \in 0..(m.weights.rows - 1) |-> passing(m, node1) \cup {node1}] :
            m \in {mat}})

mat2adj_keys_first(mat) ==
    the({[node1 \in {n \in 0..(m.weights.rows - 1) :
                      \E node2 \in 0..(m.weights.cols - 1) :
                          m.weights.at[n, node2] # 0} |-> passing(m, node1)] :
            m \in {mat}})

\* mat2adj(): a dict node1 -> set of node2 over the stored entries whose
\* weight is >= 0.5; a key is created only by a passing entry
mat2adj(mat) ==
    the({[node1 \in {n \in 0..(m.weights.rows - 1) : passing(m, n) # {}} |->
            passing(m, node1)] : m \in {mat}})

\* the products of _build_motif_adj_matrix in the order the code computes them
motif_weights(S, Y) ==
    LET B == multiply(S, T(S))
        U == minus(S, B)
        UU == dot(U, U)
        BU == dot(B, U)
        UB == dot(U, B)
        BB == dot(B, B)
        UUt == dot(U, T(U))
        UtU == dot(T(U), U)
        UtB == dot(T(U), B)
        BUt == dot(B, T(U))
        YYt == dot(Y, T(Y))
        C1 == multiply(UU, T(U))
        A1 == plus(C1, T(C1))
        C2 == plus(plus(multiply(BU, T(U)), multiply(UB, T(U))), multiply(UU, B))
        A2 == plus(C2, T(C2))
        C3 == plus(plus(multiply(BB, U), multiply(BU, B)), multiply(UB, B))
        A3 == plus(C3, T(C3))
        A4 == multiply(BB, B)
        C5 == plus(plus(multiply(UU, U), multiply(UUt, U)), multiply(UtU, U))
        A5 == plus(C5, T(C5))
        A6 == plus(plus(multiply(UB, U), multiply(BUt, T(U))), multiply(UtU, B))
        A7 == plus(plus(multiply(UtB, T(U)), multiply(BU, U)), multiply(UUt, B))
        A8 == multiply(YYt, B)
        A9h == multiply(YYt, U)
        A9 == plus(A9h, T(A9h))
        A10 == minus(minus(YYt, A8), A9)
    IN [B |-> B, U |-> U,
        H_s |-> plus(plus(plus(plus(plus(plus(A1, A2), A3), A4), A5), A6), A7),
        H_j |-> plus(A8, A9),
        H_p |-> greater_than_one(A10)]

NoMatrix == Matrix(0, 0, [i \in Nat, j \in Nat |-> 0])

NoAdj == [n \in {} |-> {}]

NoMotif ==
    [raised |-> "none", computed |-> <<>>, B |-> NoMatrix, U |-> NoMatrix,
     raw |-> [H_s |-> NoMatrix, H_j |-> NoMatrix, H_p |-> NoMatrix],
     normalized |-> [H_s |-> row_normalize(NoMatrix), H_j |-> row_normalize(NoMatrix),
                     H_p |-> row_normalize(NoMatrix)],
     H_s |-> NoAdj, H_j |-> NoAdj, H_p |-> NoAdj]

\* the names the code has bound when S.multiply(S.T) or (Y.dot(Y.T)).multiply(B)
\* raises on operands of different shapes
structural_products == <<"B", "U", "A1", "A2", "A3", "A4", "A5", "A6", "A7">>

\* _build_motif_adj_matrix(net, inter); the code has no shape
\* check of its own: a non-square S raises at the first Hadamard product, an
\* interaction matrix of another row count at A8, after A1..A7
build_motif_adj_matrix(net_matrix, inter_matrix) ==
    IF ~same_shape(net_matrix, T(net_matrix))
    THEN [NoMotif EXCEPT !.raised = "ValueError"]
    ELSE IF inter_matrix.rows # net_matrix.rows
    THEN [NoMotif EXCEPT !.raised = "ValueError", !.computed = structural_products]
    ELSE the({
           LET n_s == row_normalize(w.H_s)
               n_j == row_normalize(w.H_j)
               n_p == row_normalize(w.H_p)
           IN [raised |-> "none",
               computed |-> structural_products \o <<"A8", "A9", "A10">>,
               B |-> w.B, U |-> w.U,
               raw |-> [H_s |-> w.H_s, H_j |-> w.H_j, H_p |-> w.H_p],
               normalized |-> [H_s |-> n_s, H_j |-> n_j, H_p |-> n_p],
               H_s |-> mat2adj(n_s), H_j |-> mat2adj(n_j), H_p |-> mat2adj(n_p)] :
           w \in {motif_weights(net_matrix, inter_matrix)}})

----------------------------------------------------------------------------
(* _get_knowledge_hypergraph, _get_knowledge_embedding and the rows of
   encode_gating.  A dict is passed by reference, so every operator that is
   handed an adjacency dict also returns the dict as the call leaves it. *)

RECURSIVE list_of(_)
\* list(adj[item]): the members of a set as a list; the order Python iterates
\* a set in is not used by anything below, the ascending order stands for it
list_of(set) ==
    the({IF s = {} THEN <<>>
         ELSE the({<<x>> \o list_of(s \ {x}) :
                      x \in {CHOOSE m \in s : \A y \in s : m <= y}}) :
         s \in {set}})

lookup_inserting(adj, item) ==
    [neighbors |-> IF item \in DOMAIN adj THEN list_of(adj[item]) ELSE <<>>,
     adj |-> [n \in DOMAIN adj \cup {item} |->
                 IF n \in DOMAIN adj THEN adj[n] ELSE {}]]

\* neighbors = []; if item in adj: neighbors = list(adj[item])
lookup(adj, item) ==
    [neighbors |-> IF item \in DOMAIN adj THEN list_of(adj[item]) ELSE <<>>,
     adj |-> adj]

hyperedge_neighbors_only(item, neighbors) == neighbors

\* hypergraph_nodes.append(item); hypergraph_nodes += neighbors
hyperedge(item, neighbors) == <<item>> \o neighbors

\* sub_graph = [item] + neighbors
sub_graph(item, neighbors) == <<item>> \o neighbors

RECURSIVE knowledge_hypergraph_from(_, _, _)
\* the loop of _get_knowledge_hypergraph from the k-th queried node on
knowledge_hypergraph_from(session_related_items, k, acc) ==
    IF k > Len(session_related_items) THEN acc
    ELSE knowledge_hypergraph_from(session_related_items, k + 1,
           the({the({
              [hypergraph_nodes |-> a.hypergraph_nodes \o members,
               hypergraph_edges |-> a.hypergraph_edges \o
                   [j \in 1..Len(members) |-> a.hyper_edge_counter],
               hyper_edge_counter |-> a.hyper_edge_counter + 1,
               adj |-> lookup(a.adj, session_related_items[k]).adj] :
              members \in {hyperedge(session_related_items[k],
                              lookup(a.adj, session_related_items[k]).neighbors)}}) :
              a \in {acc}}))

\* _get_knowledge_hypergraph(session_related_items, adj): the two rows of
\* hyper_edge_index (node ids, edge ids)
get_knowledge_hypergraph(session_related_items, adj) ==
    knowledge_hypergraph_from(session_related_items, 1,
        [hypergraph_nodes |-> <<>>, hypergraph_edges |-> <<>>,
         hyper_edge_counter |-> 0, adj |-> adj])

\* the multiset of the entries of a list
bag_of(list) ==
    [x \in {list[j] : j \in DOMAIN list} |->
        Cardinality({j \in DOMAIN list : list[j] = x})]

\* hyper_conv(kg_embedding, hyper_edge_index): HypergraphConv sums over the
\* incidences of each hyperedge and of each node, so its output is a function
\* of the multiset of hyperedges, each a multiset of nodes, not of edge ids
hyper_conv(hyper_edge_index) ==
    LET ids == {hyper_edge_index.hypergraph_edges[j] :
                    j \in DOMAIN hyper_edge_index.hypergraph_edges}
        incidences(e) == {j \in DOMAIN hyper_edge_index.hypergraph_edges :
                              hyper_edge_index.hypergraph_edges[j] = e}
        members(e) ==
            [x \in {hyper_edge_index.hypergraph_nodes[j] : j \in incidences(e)} |->
                Cardinality({j \in incidences(e) :
                                hyper_edge_index.hypergraph_nodes[j] = x})]
    IN [b \in {members(e) : e \in ids} |->
           Cardinality({e \in ids : members(e) = b})]

RECURSIVE adj_after_lookups(_, _, _)
adj_after_lookups(adj, hypergraph_items, k) ==
    IF k > Len(hypergraph_items) THEN adj
    ELSE adj_after_lookups(the({lookup(a, hypergraph_items[k]).adj : a \in {adj}}),
                           hypergraph_items, k + 1)

get_knowledge_embedding_reversed(hypergraph_items, raw_knowledge_embedding, adj) ==
    LET n == Len(hypergraph_items)
    IN the({[rows |-> [k \in DOMAIN hypergraph_items |->
                    [mean_of |-> sub_graph(hypergraph_items[n + 1 - k],
                                lookup(a, hypergraph_items[n + 1 - k]).neighbors),
                     embedding |-> raw]],
             adj |-> adj_after_lookups(a, hypergraph_items, 1)] :
            raw \in {raw_knowledge_embedding}, a \in {adj}})

\* _get_knowledge_embedding: row k is the mean of the convolved embeddings
\* of the k-th queried node's sub_graph
get_knowledge_embedding(hypergraph_items, raw_knowledge_embedding, adj) ==
    the({[rows |-> [k \in DOMAIN hypergraph_items |->
                [mean_of |-> sub_graph(hypergraph_items[k],
                                       lookup(a, hypergraph_items[k]).neighbors),
                 embedding |-> raw]],
          adj |-> adj_after_lookups(a, hypergraph_items, 1)] :
         raw \in {raw_knowledge_embedding}, a \in {adj}})

\* one view of encode_gating: the hypergraph, its convolution, the pooling
view_embedding(lists, adj) ==
    the({the({
        [hyper_edge_index |-> [hypergraph_nodes |-> hg.hypergraph_nodes,
                               hypergraph_edges |-> hg.hypergraph_edges],
         rows |-> emb.rows, adj |-> emb.adj] :
        emb \in {get_knowledge_embedding(lists, hyper_conv(hg), hg.adj)}}) :
        hg \in {get_knowledge_hypergraph(lists, adj)}})

\* the body of encode_gating for a non-empty list: AttLayer mixes, row by
\* row, the three view embeddings and kg_embedding[lists]
all_emb(lists, H_j_adj, H_p_adj, H_s_adj) ==
    the({[rows |-> [k \in DOMAIN lists |->
                    [H_j |-> j.rows[k], H_p |-> p.rows[k], H_s |-> s.rows[k],
                     raw |-> lists[k]]],
          hyper |-> [H_j |-> j.hyper_edge_index, H_p |-> p.hyper_edge_index,
                     H_s |-> s.hyper_edge_index],
          H_j_adj |-> j.adj, H_p_adj |-> p.adj, H_s_adj |-> s.adj] :
         j \in {view_embedding(lists, H_j_adj)},
         p \in {view_embedding(lists, H_p_adj)},
         s \in {view_embedding(lists, H_s_adj)}})

----------------------------------------------------------------------------
(* _build_adjacent_matrix: the adjacency dicts of a constructed model *)

NoGraphs ==
    [adj |-> NoAdj,
     items |-> [H_s |-> NoAdj, H_j |-> NoAdj, H_p |-> NoAdj],
     entitys |-> [H_s |-> NoAdj, H_j |-> NoAdj, H_p |-> NoAdj],
     words |-> [H_s |-> NoAdj, H_j |-> NoAdj, H_p |-> NoAdj]]

\* the dicts of one node type after encode_gating(lists, ...) on its views
graphs_after_gating(g, type, lists) ==
    IF Len(lists) = 0 THEN g
    ELSE the({the({[h EXCEPT ![type] = [H_s |-> e.H_s_adj, H_j |-> e.H_j_adj,
                                        H_p |-> e.H_p_adj]] :
                   e \in {all_emb(lists, h[type].H_j, h[type].H_p, h[type].H_s)}}) :
              h \in {g}})

\* one pass of the loop of encode_user; the words are encoded with the
\* entity views (self.entitys_H_j, self.entitys_H_p, self.entitys_H_s)
graphs_after_session(g, entitys_list, items_list, words_list) ==
    IF Cardinality(flatten(items_list)) = 0 THEN g
    ELSE graphs_after_gating(
             graphs_after_gating(
                 graphs_after_gating(g, "items", list_of(flatten(items_list))),
                 "entitys", list_of(flatten(entitys_list))),
             "entitys", list_of(flatten(words_list)))

RECURSIVE graphs_after_encode_user(_, _, _, _, _)
graphs_after_encode_user(g, batch_related_entities, batch_related_items, batch_context_entities, i) ==
    IF i > Len(batch_related_items) THEN g
    ELSE graphs_after_encode_user(
             graphs_after_session(g, batch_related_entities[i],
                                  batch_related_items[i], batch_context_entities[i]),
             batch_related_entities, batch_related_items,
             batch_context_entities, i + 1)

\* the three intermediate view outputs of each session of encode_user
view_outputs(batch_related_entities, batch_related_items, batch_context_entities) ==
    [i \in DOMAIN batch_related_items |->
        IF Cardinality(flatten(batch_related_items[i])) = 0
        THEN [cold_start |-> TRUE, gating_calls |-> <<>>,
              items_repr |-> encode_gating({}),
              entitys_repr |-> encode_gating({}), words_repr |-> encode_gating({})]
        ELSE [cold_start |-> FALSE,
              gating_calls |-> <<"items", "entitys", "words">>,
              items_repr |-> encode_gating(flatten(batch_related_items[i])),
              entitys_repr |-> encode_gating(flatten(batch_related_entities[i])),
              words_repr |-> encode_gating(flatten(batch_context_entities[i]))]]

\* hierarchical_self_supervision(user_repr, <view>_repr) of session i: one
\* term of the loss
ss_term(i, view) == [session |-> i, view |-> view]

session_ss_loss_accumulating(v, i, ss_loss) ==
    IF v.cold_start THEN ss_loss
    ELSE (IF v.items_repr.kind # "None" THEN ss_loss \o <<ss_term(i, "items")>>
          ELSE ss_loss)
         \o (IF v.entitys_repr.kind # "None" THEN <<ss_term(i, "entitys")>> ELSE <<>>)
         \o (IF v.words_repr.kind # "None" THEN <<ss_term(i, "words")>> ELSE <<>>)

\* ss_loss after the pass of the loop of encode_user for session i, a sum
\* kept as the list of its terms: a cold-start pass leaves it (`continue`),
\* `ss_loss = ...` for the items view replaces it, `ss_loss += ...` for the
\* entity and word views add to it
session_ss_loss(v, i, ss_loss) ==
    IF v.cold_start THEN ss_loss
    ELSE (IF v.items_repr.kind # "None" THEN <<ss_term(i, "items")>>
          ELSE ss_loss)
         \o (IF v.entitys_repr.kind # "None" THEN <<ss_term(i, "entitys")>> ELSE <<>>)
         \o (IF v.words_repr.kind # "None" THEN <<ss_term(i, "words")>> ELSE <<>>)

RECURSIVE ss_loss_from(_, _, _)
ss_loss_from(views, i, ss_loss) ==
    IF i > Len(views) THEN ss_loss
    ELSE ss_loss_from(views, i + 1,
             the({session_ss_loss(v, i, l) : v \in {views[i]}, l \in {ss_loss}}))

\* the ss_loss encode_user returns: ss_loss = 0.0, then the loop
encode_user_ss_loss(batch_related_entities, batch_related_items, batch_context_entities) ==
    ss_loss_from(view_outputs(batch_related_entities, batch_related_items,
                              batch_context_entities), 1, <<>>)

----------------------------------------------------------------------------
(* Inputs: relation and interaction matrices *)

\* the weights (S[i][j], S[j][i]) of one pair of nodes: no edge, one
\* direction, the other, both, both with weights above 1
PairPatterns == {<<0, 0>>, <<1, 0>>, <<0, 1>>, <<1, 1>>, <<MaxWeight, MaxWeight + 1>>}

\* a MaxNodes x MaxNodes relation matrix with edges along the ring
\* 0 - 1 - ... - (MaxNodes - 1) - 0, pair i being (i, i + 1)
RingMatrix(p) ==
    Matrix(MaxNodes, MaxNodes,
           [i \in Nat, j \in Nat |-> IF j = (i + 1) % MaxNodes THEN p[i][1]
                         ELSE IF i = (j + 1) % MaxNodes THEN p[j][2]
                         ELSE 0])

RelationMatrices == {RingMatrix(p) : p \in [0..(MaxNodes - 1) -> PairPatterns]}

\* the nodes one user has interacted with
UserNodeSets == {{}, {0, 1}, 0..(MaxNodes - 1)}

\* u2i.T: entry (node, user) is 1 when the user interacted with the node
InteractionMatrix(u) ==
    Matrix(MaxNodes, MaxUsers, [i \in Nat, k \in Nat |-> IF i \in u[k] THEN 1 ELSE 0])

InteractionMatrices ==
    {InteractionMatrix(u) : u \in [0..(MaxUsers - 1) -> UserNodeSets]}

\* malformed inputs: a relation matrix that is not square, an interaction
\* matrix with another number of rows than the relation matrix
NonSquareMatrix == Matrix(MaxNodes, MaxNodes + 1, [i \in Nat, j \in Nat |-> IF j = i + 1 THEN 1 ELSE 0])

TallInteractionMatrix == Matrix(MaxNodes + 1, MaxUsers, [i \in Nat, k \in Nat |-> 1])

MotifInputs ==
    (RelationMatrices \X InteractionMatrices)
    \cup ({NonSquareMatrix} \X InteractionMatrices)
    \cup {<<RingMatrix([i \in 0..(MaxNodes - 1) |-> <<1, 0>>]), TallInteractionMatrix>>}

----------------------------------------------------------------------------
(* The edge-mat files and the knowledge graph of each dataset *)

DatasetIndex(d) ==
    CASE d = "HReDial" -> 0 [] d = "HTGReDial" -> 1 [] d = "OpenDialKG" -> 2
      [] OTHER -> 3

PatternCycle == <<<<1, 0>>, <<1, 1>>, <<0, 1>>, <<0, 0>>, <<MaxWeight, MaxWeight + 1>>>>

\* sparse.load_npz(<dataset>/edge-mat/<name>.npz): a relation matrix for
\* i2i, e2e, w2w, a users x nodes matrix for u2i, u2e, u2w; the files differ
\* from dataset to dataset and from node type to node type
load_npz(d, name) ==
    LET shift == CASE name \in {"i2i", "u2i"} -> 0
                   [] name \in {"e2e", "u2e"} -> 1
                   [] OTHER -> 2
    IN IF name \in {"i2i", "e2e", "w2w"}
       THEN RingMatrix([i \in 0..(MaxNodes - 1) |->
                PatternCycle[((DatasetIndex(d) + shift + i) % Len(PatternCycle)) + 1]])
       ELSE T(InteractionMatrix([k \in 0..(MaxUsers - 1) |->
                IF (DatasetIndex(d) + shift + k) % 2 = 0
                THEN 0..(MaxNodes - 1) ELSE {0, 1}]))

\* self.entity_kg['edge'] as (head, tail) pairs
entity_kg_edge(d) ==
    {<<i, (i + 1 + DatasetIndex(d)) % MaxNodes>> : i \in 0..(MaxNodes - 1)}

\* _build_adjacent_matrix(): the 1-hop dict self.adj over range(n_entity)
\* and the three views of each node type
build_adjacent_matrix(d) ==
    LET views(S, Y) == the({[H_s |-> m.H_s, H_j |-> m.H_j, H_p |-> m.H_p] :
                                m \in {build_motif_adj_matrix(S, Y)}})
    IN [adj |-> [entity \in 0..(MaxNodes - 1) |->
                    {e[2] : e \in {x \in entity_kg_edge(d) : x[1] = entity}}],
        items |-> views(load_npz(d, "i2i"), T(load_npz(d, "u2i"))),
        entitys |-> views(load_npz(d, "e2e"), T(load_npz(d, "u2e"))),
        words |-> views(load_npz(d, "w2w"), T(load_npz(d, "u2w")))]

\* node lists handed to encode_gating: every list of at most MaxList nodes
NodeLists == UNION {[1..n -> 0..(MaxNodes - 1)] : n \in 0..MaxList}

\* sessions whose ids are nodes of the adjacency views
GraphSessions ==
    {[related_items |-> it, extended_items |-> ex, context_entities |-> w,
      related_entities |-> en] :
        it \in {<<>>, <<1, 0>>}, ex \in {<<>>, <<2>>},
        w \in {<<>>, <<2>>}, en \in {<<>>, <<1>>}}

GraphBatches ==
    {MakeBatch("rec", <<g>>, 0) : g \in GraphSessions}
    \cup {MakeBatch("conv", <<g>>, 1) : g \in GraphSessions}

----------------------------------------------------------------------------
(* Actions *)

\* no model has been constructed and no builder call is under way
IdleModel ==
    /\ phase = "new"
    /\ opt = DefaultOpt
    /\ dataset = NoneVal
    /\ pooling = NoneVal
    /\ extension_strategy = NoneVal
    /\ longest_label = 0
    /\ batch = NoBatch
    /\ ret = NoRet
    /\ longest_resp = 0
    /\ graphs = NoGraphs
    /\ net = NoMatrix
    /\ inter = NoMatrix
    /\ motif = NoMotif

\* opt.get(key, default) of a key that is absent (<<>>) or present (<<v>>)
get(value, default) == IF value = <<>> THEN default ELSE value[1]

\* the optimizer options init_optim() is given
OptimOpts ==
    [update_freq : {<<>>} \cup {<<n>> : n \in 1..MaxUpdateFreq},
     early_stop : {<<>>, <<TRUE>>, <<FALSE>>},
     impatience : {<<>>} \cup {<<n>> : n \in 1..MaxImpatience},
     stop_mode : {"max", "min", "other"}]

\* the validation metrics early_stop() is given
Metrics == {0, 1, 2}

\* a BaseSystem before init_optim(); best_valid is <<>> for None and <<v>>
\* for a metric; last holds what the last call did
NoSystem ==
    [inited |-> FALSE, raised |-> "none", optim_opt |-> <<>>,
     update_freq |-> 0, number_grad_accum |-> 0,
     need_early_stop |-> FALSE, best_valid |-> <<>>, drop_cnt |-> 0,
     impatience |-> 0, stop_mode |-> 0,
     grads |-> 0, backward_calls |-> 0, steps |-> 0, seen |-> <<>>,
     last |-> [op |-> "none", returned |-> "none", zeroed |-> FALSE,
               stepped |-> FALSE, stepped_with |-> 0,
               best_valid |-> <<>>, drop_cnt |-> 0]]

\* reset_early_stop_state(): the attributes it has set when it returns or
\* raises
reset_early_stop_state(sys) ==
    LET cleared == [sys EXCEPT !.best_valid = <<>>, !.drop_cnt = 0,
                               !.impatience = get(sys.optim_opt[1].impatience, 3),
                               !.seen = <<>>]
    IN IF sys.optim_opt[1].stop_mode = "max" THEN [cleared EXCEPT !.stop_mode = 1]
       ELSE IF sys.optim_opt[1].stop_mode = "min" THEN [cleared EXCEPT !.stop_mode = 0 - 1]
       ELSE [cleared EXCEPT !.raised = "RuntimeError"]

\* init_optim(opt, parameters)
init_optim(sys, o) ==
    LET set == [sys EXCEPT !.inited = TRUE, !.optim_opt = <<o>>,
                           !.update_freq = get(o.update_freq, 1),
                           !.number_grad_accum = 0,
                           !.need_early_stop = get(o.early_stop, FALSE)]
    IN IF set.need_early_stop THEN reset_early_stop_state(set) ELSE set

zero_grad_on_every_call(number_grad_accum) == TRUE

\* _zero_grad(): optimizer.zero_grad() runs unless gradients are being
\* accumulated
zero_grad_runs(number_grad_accum) == ~(number_grad_accum # 0)

\* _update_params(): optimizer.step() runs unless update_freq > 1 and the
\* count of accumulated passes is not back at 0
update_params_steps(update_freq, number_grad_accum) ==
    ~(update_freq > 1 /\ number_grad_accum # 0)

\* backward(loss): _zero_grad(), the count of accumulated passes, one
\* loss.backward() adding to the gradients, _update_params(); grads is the
\* number of backward passes the gradients hold
backward(sys) ==
    LET zeroed == zero_grad_runs(sys.number_grad_accum)
        accum == IF sys.update_freq > 1
                 THEN (sys.number_grad_accum + 1) % sys.update_freq
                 ELSE sys.number_grad_accum
        grads == (IF zeroed THEN 0 ELSE sys.grads) + 1
        stepped == update_params_steps(sys.update_freq, accum)
    IN [sys EXCEPT !.number_grad_accum = accum,
                   !.grads = grads,
                   !.backward_calls = @ + 1,
                   !.steps = IF stepped THEN @ + 1 ELSE @,
                   !.last = [@ EXCEPT !.op = "backward", !.zeroed = zeroed,
                                      !.stepped = stepped,
                                      !.stepped_with = IF stepped THEN grads ELSE 0]]

improves_or_ties(metric, best_valid, stop_mode) ==
    best_valid = <<>> \/ metric * stop_mode >= best_valid[1] * stop_mode

\* self.best_valid is None or
\* metric * self.stop_mode > self.best_valid * self.stop_mode
improves(metric, best_valid, stop_mode) ==
    best_valid = <<>> \/ metric * stop_mode > best_valid[1] * stop_mode

\* early_stop(metric): the attributes after the call and what it returned;
\* a call that neither improves nor reaches impatience falls off the end of
\* the function and returns None
early_stop(sys, metric) ==
    IF ~sys.need_early_stop THEN [sys EXCEPT !.last.returned = "False"]
    ELSE IF improves(metric, sys.best_valid, sys.stop_mode)
    THEN [sys EXCEPT !.best_valid = <<metric>>, !.drop_cnt = 0,
                     !.last.returned = "False"]
    ELSE [sys EXCEPT !.drop_cnt = @ + 1,
                     !.last.returned = IF sys.drop_cnt + 1 >= sys.impatience
                                       THEN "True" ELSE "None"]

\* the token sequences gen_evaluate() is given as seq
TokenSeqs == {<<>>, <<0>>, <<0, 1>>, <<1, 1, 0>>}

\* the seq argument: <<>> when left at its default None, <<s>> otherwise
SeqArgs == {<<>>} \cup {<<s>> : s \in TokenSeqs}

\* the ranked item lists rec_evaluate() is given: 1 and 51 items
RankLists == {[i \in 1..n |-> i] : n \in {1, 51}}

\* nltk.ngrams(seq, k)
ngrams(seq, k) == {SubSeq(seq, i, i + k - 1) : i \in 1..(Len(seq) - k + 1)}

\* StandardEvaluator(language, file_path): dist_set maps the k of each key
\* "dist@k" it holds to a set of k-grams; the metrics are kept as the names
\* added to them; last holds what the last call was given and found
NewEvaluator(file_path) ==
    [file_path |-> file_path, rankfile |-> <<>>, rec_metrics |-> {},
     dist_set |-> [k \in {} |-> {}], dist_cnt |-> 0, gen_metrics |-> {},
     last |-> [op |-> "init", raised |-> "none", wrote |-> FALSE, ranks |-> <<>>,
               rankfile |-> <<>>, dist_set |-> [k \in {} |-> {}], dist_cnt |-> 0]]

\* ranks[:50]
first_fifty(ranks) == SubSeq(ranks, 1, Min(Len(ranks), 50))

\* rec_evaluate(ranks, label)
rec_evaluate(ev, ranks) ==
    [ev EXCEPT
        !.rankfile = @ \o first_fifty(ranks),
        !.rec_metrics = @ \cup
            {<<name, k>> : name \in {"hit", "ndcg", "mrr"},
                           k \in {j \in {1, 10, 50} : Len(ranks) >= j}}
            \cup {<<name, k>> : name \in {"cov", "iso"},
                                k \in {j \in {5, 10, 15, 20} : Len(ranks) >= j}}]

\* gen_evaluate(hyp, refs, seq): nothing for an empty hyp; with seq left
\* None, ngrams(None, 1) raises once f1 and bleu@1 have been added
gen_evaluate(ev, hyp, seq) ==
    IF hyp = <<>> THEN ev
    ELSE IF seq = <<>>
    THEN [ev EXCEPT !.gen_metrics = @ \cup {<<"f1", 0>>, <<"bleu", 1>>},
                    !.last.raised = "TypeError"]
    ELSE [ev EXCEPT
            !.gen_metrics = @ \cup {<<"f1", 0>>} \cup {<<"bleu", k>> : k \in 1..4},
            !.dist_set = [k \in DOMAIN ev.dist_set
                                \cup {j \in 1..4 : ngrams(seq[1], j) # {}} |->
                            (IF k \in DOMAIN ev.dist_set THEN ev.dist_set[k] ELSE {})
                            \cup ngrams(seq[1], k)],
            !.dist_cnt = @ + 1]

\* report(): the rank file is written and rankfile emptied, then
\* len(v) / self.dist_cnt for each key of dist_set
report(ev) ==
    LET emptied == [ev EXCEPT
                      !.last.wrote = ev.file_path # <<>> /\ Len(ev.rankfile) > 0,
                      !.rankfile = <<>>]
    IN IF DOMAIN ev.dist_set # {} /\ ev.dist_cnt = 0
       THEN [emptied EXCEPT !.last.raised = "ZeroDivisionError"]
       ELSE [emptied EXCEPT
               !.gen_metrics = @ \cup {<<"dist", k>> : k \in DOMAIN ev.dist_set}]

reset_metrics_dist_cnt_only(ev) ==
    [ev EXCEPT !.rec_metrics = {}, !.gen_metrics = {}, !.dist_cnt = 0]

\* reset_metrics()
reset_metrics(ev) ==
    [ev EXCEPT !.rec_metrics = {}, !.gen_metrics = {}, !.dist_cnt = 0,
               !.dist_set = [k \in {} |-> {}]]

\* what a call finds: its name, and the fields it may change
calling(ev, op, ranks) ==
    [ev EXCEPT !.last = [op |-> op, raised |-> "none", wrote |-> FALSE, ranks |-> ranks,
                         rankfile |-> ev.rankfile, dist_set |-> ev.dist_set,
                         dist_cnt |-> ev.dist_cnt]]

\* the token ids of the vocabulary
Vocabulary == 0..1

\* self.copy_mask: True at the ids of the tokens that start with '@'
CopyMasks == [Vocabulary -> BOOLEAN]

\* the logits one position can get from the token, user and copy heads
TokenLogits == [Vocabulary -> {0, 1}]

UserLogits == [Vocabulary -> {0, 1}]

CopyLogits == [Vocabulary -> {0 - 1, 0, 2}]

copy_masked_for_every_dataset(d, copy_logits, copy_mask) ==
    [v \in DOMAIN copy_logits |-> IF copy_mask[v] THEN copy_logits[v] ELSE 0]

\* if self.dataset == 'HReDial':
\*     copy_logits = copy_logits * self.copy_mask.unsqueeze(0).unsqueeze(0)
copy_masked(d, copy_logits, copy_mask) ==
    IF d = "HReDial"
    THEN [v \in DOMAIN copy_logits |-> copy_logits[v] * (IF copy_mask[v] THEN 1 ELSE 0)]
    ELSE copy_logits

\* sum_logits = token_logits + user_logits + copy_logits
sum_logits(token_logits, user_logits, copy_logits) ==
    [v \in DOMAIN token_logits |-> token_logits[v] + user_logits[v] + copy_logits[v]]

\* sum_logits.max(dim=-1): the indices torch may return, those of a largest
\* entry
max_indices(logits_row) ==
    {v \in DOMAIN logits_row : \A w \in DOMAIN logits_row : logits_row[w] <= logits_row[v]}

\* one position of decode_forced: the logits it returns and the
\* predictions it may return
decode_forced_position(d, token_logits, user_logits, copy_logits, copy_mask) ==
    the({[sum_logits |-> sum, preds |-> max_indices(sum)] :
         sum \in {sum_logits(token_logits, user_logits,
                             copy_masked(d, copy_logits, copy_mask))}})

\* one step of decode_greedy: the tokens it may append to xs
decode_greedy_step(d, token_logits, user_logits, copy_logits, copy_mask) ==
    the({[sum_logits |-> sum, preds |-> max_indices(sum)] :
         sum \in {sum_logits(token_logits, user_logits,
                             copy_masked(d, copy_logits, copy_mask))}})

\* no position has been decoded
NoLogits ==
    [decoder |-> "none", token_logits |-> <<>>, user_logits |-> <<>>,
     copy_logits |-> <<>>, copy_mask |-> <<>>, sum_logits |-> <<>>,
     preds |-> 0]

\* torch.randperm(n): a permutation of n positions, chosen by the generator
randperm(n) ==
    {p \in [1..n -> 1..n] : \A a, b \in 1..n : a # b => p[a] # p[b]}

shuffle_draws_reusing(gen) ==
    [user_rows |-> gen + 1, local_cols |-> gen + 2, local_rows |-> gen + 3,
     global_cols |-> gen + 2, global_rows |-> gen + 3]

\* the draw of the generator (counted from its seeding) that each shuffle
\* of one hierarchical_self_supervision call uses: row_shuffle calls
\* torch.randperm once, row_column_shuffle twice, columns first, and the
\* call runs row_shuffle(user_embeddings), row_column_shuffle(edge_embeddings)
\* for the local term and row_column_shuffle(edge_embeddings) for the global
shuffle_draws(gen) ==
    [user_rows |-> gen + 1, local_cols |-> gen + 2, local_rows |-> gen + 3,
     global_cols |-> gen + 4, global_rows |-> gen + 5]

\* the generator's draws one call uses
draws_of(d) ==
    {d.user_rows, d.local_cols, d.local_rows, d.global_cols, d.global_rows}

\* no call of hierarchical_self_supervision since the generator was seeded
NoShuffle ==
    [gen |-> 0, calls |-> 0, before |-> 0, draws |-> shuffle_draws(0),
     user_rows |-> <<>>, local_cols |-> <<>>, local_rows |-> <<>>,
     global_cols |-> <<>>, global_rows |-> <<>>]

\* (rows, columns) of edge_embeddings; user_embeddings has as many entries
\* as edge_embeddings has columns
EmbeddingShapes == {<<1, 2>>, <<2, 2>>, <<3, 2>>}

\* no call of flatten() has been made
NoFlat == [inputs |-> <<>>, called |-> FALSE, outputs |-> <<>>]

\* the elements of the lists handed to flatten()
FlattenElements ==
    {Id(0), Id(1), IdList(<<>>), IdList(<<0>>), IdList(<<1, 2>>), IdList(<<2, 2, 0>>)}

FlattenInputs == UNION {[1..n -> FlattenElements] : n \in 0..MaxInputs}

Init ==
    /\ phase = "new"
    /\ opt = DefaultOpt
    /\ dataset = NoneVal
    /\ pooling = NoneVal
    /\ extension_strategy = NoneVal
    /\ longest_label = 0
    /\ batch = NoBatch
    /\ ret = NoRet
    /\ longest_resp = 0
    /\ graphs = NoGraphs
    /\ net = NoMatrix
    /\ inter = NoMatrix
    /\ motif = NoMotif
    /\ flat = NoFlat
    /\ shuffle = NoShuffle
    /\ logits = NoLogits
    /\ system = NoSystem
    /\ evaluator = NewEvaluator(<<>>)

\* a call of _build_motif_adj_matrix on its own: the matrices it is given
InitMotif ==
    /\ phase = "new"
    /\ opt = DefaultOpt
    /\ dataset = NoneVal
    /\ pooling = NoneVal
    /\ extension_strategy = NoneVal
    /\ longest_label = 0
    /\ batch = NoBatch
    /\ ret = NoRet
    /\ longest_resp = 0
    /\ graphs = NoGraphs
    /\ \E input \in MotifInputs : net = input[1] /\ inter = input[2]
    /\ motif = NoMotif
    /\ flat = NoFlat
    /\ shuffle = NoShuffle
    /\ logits = NoLogits
    /\ system = NoSystem
    /\ evaluator = NewEvaluator(<<>>)

\* H_s, H_j, H_p = self._build_motif_adj_matrix(net_matrix, inter_matrix)
BuildMotif ==
    /\ net # NoMatrix
    /\ motif = NoMotif
    /\ motif' = build_motif_adj_matrix(net, inter)
    /\ UNCHANGED <<phase, opt, dataset, pooling, extension_strategy,
                   longest_label, batch, ret, longest_resp, graphs,
                   net, inter>>
    /\ UNCHANGED aside

init_asserts_dataset_only(o) == o.dataset \in SupportedDatasets

\* the two assert statements of __init__
init_asserts(o) ==
    /\ o.dataset \in SupportedDatasets
    /\ o.pooling = "Attn" \/ o.pooling = "Mean"

\* MHIMModel(opt, device, vocab, side_data): the attributes are set and the
\* asserts run before super().__init__() has build_model() build the
\* adjacency dicts and the layers
Construct ==
    /\ phase = "new"
    /\ \E o \in Opts :
        /\ opt' = o
        /\ IF init_asserts(o)
           THEN /\ phase' = "ready"
                /\ dataset' = o.dataset
                /\ pooling' = o.pooling
                /\ extension_strategy' = o.extension_strategy
                /\ longest_label' = o.longest_label
                /\ graphs' = build_adjacent_matrix(o.dataset)
           ELSE /\ phase' = "failed"
                /\ UNCHANGED <<dataset, pooling, extension_strategy,
                               longest_label, graphs>>
    /\ UNCHANGED <<batch, ret, longest_resp, net, inter, motif>>
    /\ UNCHANGED aside

\* the caller's loop drops the batch and the results it has finished with
ReleaseBatch ==
    /\ phase = "ready"
    /\ batch # NoBatch \/ ret # NoRet
    /\ batch' = NoBatch
    /\ ret' = NoRet
    /\ UNCHANGED <<phase, opt, dataset, pooling, extension_strategy,
                   longest_label, longest_resp, net, inter, motif>>
    /\ UNCHANGED graphs
    /\ UNCHANGED aside

\* the dataloader of the running stage hands over a fresh batch object
NewBatch(batches) ==
    /\ phase = "ready"
    /\ batch = NoBatch
    /\ \E b \in batches : batch' = b
    /\ ret' = NoRet
    /\ UNCHANGED <<phase, opt, dataset, pooling, extension_strategy,
                   longest_label, longest_resp, net, inter, motif>>
    /\ UNCHANGED graphs
    /\ UNCHANGED aside

\* forward(batch, mode, "rec") = recommend(batch, mode); the caller's loop
\* forwards each batch object once
Recommend ==
    /\ phase = "ready"
    /\ batch.stage = "rec"
    /\ ret = NoRet
    /\ IF /\ extension_strategy = "Random"
          /\ \E i \in 1..bsz(batch) :
                sample_raises(batch.extended_items[i],
                              truncate(Len(batch.related_items[i]),
                                       Len(batch.extended_items[i])))
       THEN /\ ret' = [NoRet EXCEPT !.op = "recommend", !.before = batch,
                                    !.raised = "ValueError"]
            /\ batch' = batch
            /\ graphs' = graphs
       ELSE IF extension_strategy \in {"Adaptive", "Random"}
       THEN LET choices == [i \in 1..bsz(batch) |->
                               extension_choices(batch.related_items[i],
                                                 batch.extended_items[i])]
            IN \E new \in [1..bsz(batch) ->
                            UNION {choices[i] : i \in 1..bsz(batch)}] :
               /\ \A i \in 1..bsz(batch) : new[i] \in choices[i]
               /\ batch' = [batch EXCEPT !.related_items = new]
               /\ ret' = [NoRet EXCEPT
                            !.op = "recommend", !.before = batch,
                            !.user = encode_user(batch.related_entities, new,
                                                 batch.context_entities),
                            !.views = view_outputs(batch.related_entities, new,
                                                   batch.context_entities),
                            !.ss_loss = encode_user_ss_loss(batch.related_entities,
                                            new, batch.context_entities),
                            !.returns = "loss_scores"]
               /\ graphs' = graphs_after_encode_user(graphs,
                                batch.related_entities, new,
                                batch.context_entities, 1)
       ELSE \* assert self.extension_strategy == 'Random' fails at i = 0
            /\ ret' = [NoRet EXCEPT !.op = "recommend", !.before = batch,
                                    !.raised = "AssertionError"]
            /\ batch' = batch
            /\ graphs' = graphs
    /\ UNCHANGED <<phase, opt, dataset, pooling, extension_strategy,
                   longest_label, longest_resp, net, inter, motif>>
    /\ UNCHANGED aside

\* forward(batch, mode, "conv") = converse(batch, mode)
Converse ==
    /\ phase = "ready"
    /\ batch.stage = "conv"
    /\ ret = NoRet
    /\ \E mode \in {"train", "valid", "test"} :
        LET es == encode_session(batch.related_items, batch.context_entities)
            user == encode_user(batch.related_entities, batch.related_items,
                                batch.context_entities)
            called == [NoRet EXCEPT !.op = "converse", !.mode = mode,
                                    !.before = batch]
            encoded == [called EXCEPT
                          !.session = es.session, !.mask = es.mask, !.user = user,
                          !.views = view_outputs(batch.related_entities,
                                                 batch.related_items,
                                                 batch.context_entities)]
            after == graphs_after_encode_user(graphs, batch.related_entities,
                         batch.related_items, batch.context_entities, 1)
        IN IF es.raised # "none"
           THEN /\ ret' = [called EXCEPT !.raised = es.raised]
                /\ UNCHANGED <<longest_label, longest_resp, graphs>>
           ELSE IF mode # "test"
           THEN LET df == decode_forced(batch.response)
                IN /\ longest_label' = Max(longest_label, Len(batch.response[1]))
                   /\ longest_resp' = Max(longest_resp, Len(batch.response[1]))
                   /\ ret' = [encoded EXCEPT
                                !.inputs = df.inputs,
                                !.positions = df.positions,
                                !.returns = "loss_preds"]
                   /\ graphs' = after
           ELSE \E first_end \in [1..bsz(batch) -> 1..(longest_label + 1)] :
                LET dg == decode_greedy(bsz(batch), first_end)
                IN /\ ret' = [encoded EXCEPT
                                !.xs = dg.xs, !.steps = dg.steps,
                                !.returns = "preds"]
                   /\ graphs' = after
                   /\ UNCHANGED <<longest_label, longest_resp>>
    /\ UNCHANGED <<phase, opt, dataset, pooling, extension_strategy, batch,
                   net, inter, motif>>
    /\ UNCHANGED aside

\* encode_gating(lists, H_j_adj, H_p_adj, H_s_adj, ...) on the views of the
\* items or of the entities (the words are encoded with the entity views)
EncodeGating ==
    /\ phase = "ready"
    /\ batch = NoBatch
    /\ ret = NoRet
    /\ \E type \in {"items", "entitys"} : \E lists \in NodeLists :
        LET called == [NoRet EXCEPT !.op = "encode_gating", !.type = type,
                                    !.lists = lists]
        IN IF encode_gating(flatten(lists)).kind = "None"
           THEN /\ ret' = [called EXCEPT !.returns = "None"]
                /\ graphs' = graphs
           ELSE LET e == all_emb(lists, graphs[type].H_j, graphs[type].H_p,
                                 graphs[type].H_s)
                IN /\ ret' = [called EXCEPT !.rows = e.rows, !.hyper = e.hyper,
                                            !.returns = "all_emb"]
                   /\ graphs' = graphs_after_gating(graphs, type, lists)
    /\ UNCHANGED <<phase, opt, dataset, pooling, extension_strategy,
                   longest_label, batch, longest_resp, net, inter, motif>>
    /\ UNCHANGED aside

Next ==
    \/ Construct
    \/ NewBatch(RecBatches \cup ConvBatches)
    \/ ReleaseBatch
    \/ Recommend
    \/ Converse

Spec == Init /\ [][Next]_vars

\* the recommendation stage: every batch goes to recommend()
RecNext ==
    \/ Construct
    \/ NewBatch(RecBatches)
    \/ ReleaseBatch
    \/ Recommend

SpecRec == Init /\ [][RecNext]_vars

\* the conversation stage: every batch goes to converse()
ConvNext ==
    \/ Construct
    \/ NewBatch(ConvBatches)
    \/ ReleaseBatch
    \/ Converse

SpecConv == Init /\ [][ConvNext]_vars

\* the encoder on the adjacency views of a constructed model
EncodeNext ==
    \/ Construct
    \/ NewBatch(GraphBatches)
    \/ ReleaseBatch
    \/ Recommend
    \/ Converse
    \/ EncodeGating

SpecEncode == Init /\ [][EncodeNext]_vars

\* the motif adjacency builder applied to given matrices
MotifNext == BuildMotif

SpecMotif == InitMotif /\ [][MotifNext]_vars

----------------------------------------------------------------------------
(* Claims C1..C10 *)

\* floor and ceiling of n / 4, by their defining inequalities
FloorQuarter(n) == CHOOSE q \in 0..n : 4 * q <= n /\ n < 4 * (q + 1)

CeilQuarter(n) == CHOOSE q \in 0..(n + 1) : 4 * (q - 1) < n /\ n <= 4 * q

\* clamp(x, lower bound lo, upper bound hi), the upper bound winning
Clamp(x, lo, hi) == IF x < lo THEN (IF lo > hi THEN hi ELSE lo)
                    ELSE (IF x > hi THEN hi ELSE x)

RecommendReturned == ret.op = "recommend" /\ ret.raised = "none"

ConverseReturned == ret.op = "converse" /\ ret.raised = "none"

\* number of ids recommend() appended to session i's related items
Appended(i) == Len(batch.related_items[i]) - Len(ret.before.related_items[i])

\* C1 as stated: under 'Adaptive' the number of appended extension candidates
\* is clamp(ceil(|related_items| / 4), 2, |extensions|) for every session.
C1_AppendedIsCeilClamp ==
    (RecommendReturned /\ extension_strategy = "Adaptive") =>
        \A i \in DOMAIN batch.related_items :
            Appended(i) = Clamp(CeilQuarter(Len(ret.before.related_items[i])), 2,
                                Len(ret.before.extended_items[i]))

\* C1 amended: under 'Adaptive' the number of appended extension candidates
\* is clamp(floor(|related_items| / 4), 2, |extensions|) for every session.
C1_AppendedIsFloorClamp ==
    (RecommendReturned /\ extension_strategy = "Adaptive") =>
        \A i \in DOMAIN batch.related_items :
            Appended(i) = Clamp(FloorQuarter(Len(ret.before.related_items[i])), 2,
                                Len(ret.before.extended_items[i]))

\* C1 witness: an 'Adaptive' call on a session of 12 related items and at
\* least 3 candidates appended 3 of them (the quotient, not the lower bound).
C1_Witness ==
    /\ RecommendReturned
    /\ extension_strategy = "Adaptive"
    /\ \E i \in DOMAIN batch.related_items :
          /\ Len(ret.before.related_items[i]) = 12
          /\ Len(ret.before.extended_items[i]) >= 3
          /\ Appended(i) = 3

\* C2: under 'Adaptive' the new related-item list of every session is the old
\* list followed by the first k extension candidates in their order, k being
\* fixed by the two lengths (so equal inputs give equal lists); [5, 9] with 4
\* candidates gets exactly 2 appended.
C2_AdaptiveAppendsRankedPrefix ==
    (RecommendReturned /\ extension_strategy = "Adaptive") =>
        \A i \in DOMAIN batch.related_items :
            LET old == ret.before.related_items[i]
                ext == ret.before.extended_items[i]
                new == batch.related_items[i]
                k == Clamp(FloorQuarter(Len(old)), 2, Len(ext))
            IN /\ Len(new) = Len(old) + k
               /\ \A j \in 1..Len(old) : new[j] = old[j]
               /\ \A j \in 1..k : new[Len(old) + j] = ext[j]
               /\ (old = <<5, 9>> /\ Len(ext) = 4) => Len(new) = 4

\* C2 witness: the session [5, 9] with candidates [21, 22, 23, 24] became
\* [5, 9, 21, 22].
C2_Witness ==
    /\ RecommendReturned
    /\ extension_strategy = "Adaptive"
    /\ ret.before.related_items = << <<5, 9>> >>
    /\ ret.before.extended_items = << <<21, 22, 23, 24>> >>
    /\ batch.related_items = << <<5, 9, 21, 22>> >>

IsZeroVector(v) ==
    /\ v.op = "zeros"
    /\ v.dim = kg_emb_dim
    /\ v.items = {} /\ v.entitys = {} /\ v.words = {} /\ v.raw_words = <<>>

ColdSession(b, i) ==
    Len(b.related_items[i]) = 0 /\ Len(b.context_entities[i]) = 0

\* C3 as stated: every session handed to recommend() with no related items
\* and no related words gets the zero user vector, whatever its extension
\* candidates are.
C3_ColdStartIsZero ==
    RecommendReturned =>
        \A i \in DOMAIN ret.user :
            ColdSession(ret.before, i) => IsZeroVector(ret.user[i])

\* C3 amended: every session handed to recommend() with no related items, no
\* related words and no extension candidates gets the zero user vector of
\* dimension user_emb_dim.
C3_ColdStartWithoutExtensionIsZero ==
    RecommendReturned =>
        \A i \in DOMAIN ret.user :
            (ColdSession(ret.before, i) /\ Len(ret.before.extended_items[i]) = 0)
                => IsZeroVector(ret.user[i])

\* C3 witness: recommend() returned for a batch of two sessions, one of them
\* without related items, words and candidates, and gave it the zero vector.
C3_Witness ==
    /\ RecommendReturned
    /\ Len(ret.user) = 2
    /\ \E i \in DOMAIN ret.user :
          /\ ColdSession(ret.before, i)
          /\ Len(ret.before.extended_items[i]) = 0
          /\ IsZeroVector(ret.user[i])
    /\ \E i \in DOMAIN ret.user : ~IsZeroVector(ret.user[i])

\* C4: after a call of recommend() or converse() every list of the batch is
\* what it was before the call.
C4_BatchIsReadOnly ==
    ret.op \in {"recommend", "converse"} => batch = ret.before

\* C5: converse() on a batch that holds a session with related items returns,
\* (loss, preds) outside 'test' mode and preds in 'test' mode.
C5_ConverseCompletes ==
    (/\ ret.op = "converse"
     /\ \E i \in DOMAIN ret.before.related_items :
           Len(ret.before.related_items[i]) > 0)
        => /\ ret.raised = "none"
           /\ ret.returns = IF ret.mode = "test" THEN "preds" ELSE "loss_preds"

\* C6: on a batch whose sessions all have no related items and no context
\* entities, encode_session returns and every session is a block of zero rows
\* under an all-False mask.
C6_AllColdBatchIsEncoded ==
    (/\ ret.op = "converse"
     /\ \A i \in DOMAIN ret.before.related_items : ColdSession(ret.before, i))
        => /\ ret.raised = "none"
           /\ \A i \in DOMAIN ret.mask :
                 /\ \A j \in DOMAIN ret.mask[i] : ret.mask[i][j] = FALSE
                 /\ \A j \in DOMAIN ret.session[i] : ret.session[i][j].kind = "zero"

\* the batch maximum of the unpadded sequence lengths of a cold-start batch
BatchSeqLen(b) ==
    CHOOSE n \in 0..MaxContext :
        /\ \E i \in DOMAIN b.context_entities : Len(b.context_entities[i]) = n
        /\ \A i \in DOMAIN b.context_entities : Len(b.context_entities[i]) <= n

\* C7: whenever encode_session returns, every session's mask and padded
\* sequence have the batch maximum length, the mask is False on the leading
\* padding and True on the trailing content, the count of True entries is the
\* session's unpadded length, and every padded position is a zero row.
C7_MaskIsRightAligned ==
    ConverseReturned =>
        \A i \in DOMAIN ret.mask :
            LET size == Len(ret.before.context_entities[i])
                n == BatchSeqLen(ret.before)
            IN /\ Len(ret.mask[i]) = n
               /\ Len(ret.session[i]) = n
               /\ \A j \in 1..n : ret.mask[i][j] = (j > n - size)
               /\ \A j, k \in 1..n :
                     (ret.mask[i][j] = FALSE /\ ret.mask[i][k] = TRUE) => j < k
               /\ Cardinality({j \in 1..n : ret.mask[i][j]}) = size
               /\ \A j \in 1..n :
                     ret.mask[i][j] = FALSE => ret.session[i][j].kind = "zero"
               /\ \A j \in 1..size :
                     ret.session[i][n - size + j] =
                        [kind |-> "raw", id |-> ret.before.context_entities[i][j]]

\* C7 witness: encode_session returned a session with both padding and
\* content.
C7_Witness ==
    /\ ConverseReturned
    /\ \E i \in DOMAIN ret.mask :
          /\ \E j \in DOMAIN ret.mask[i] : ret.mask[i][j] = FALSE
          /\ \E j \in DOMAIN ret.mask[i] : ret.mask[i][j] = TRUE

GreedyReturned == ConverseReturned /\ ret.mode = "test"

\* every row of xs holds the end token among its first 1 + j entries
FinishedBy(xs, j) ==
    \A r \in DOMAIN xs : \E p \in 1..(1 + j) : xs[r][p] = end_token_idx

\* C8 as stated: a decode_greedy call makes at most the configured
\* longest_label steps and none after every row holds the end token.
C8_GreedyWithinConfiguredMaximum ==
    GreedyReturned =>
        /\ ret.steps <= opt.longest_label
        /\ \A r \in DOMAIN ret.xs :
              /\ Len(ret.xs[r]) <= 1 + opt.longest_label
              /\ ret.xs[r][1] = start_token_idx
        /\ \A j \in 1..(ret.steps - 1) : ~FinishedBy(ret.xs, j)

\* C8 amended: longest_label is the larger of its configured value and the
\* longest response a non-test converse() has decoded; a decode_greedy call
\* makes at most that many steps, starts every row with the start token, makes
\* no step after every row holds the end token, and stops before the maximum
\* only when every row does.
C8_GreedyWithinLongestLabel ==
    /\ phase = "ready" => longest_label = Max(opt.longest_label, longest_resp)
    /\ GreedyReturned =>
        /\ ret.steps >= 1
        /\ ret.steps <= longest_label
        /\ \A r \in DOMAIN ret.xs :
              /\ Len(ret.xs[r]) = 1 + ret.steps
              /\ ret.xs[r][1] = start_token_idx
        /\ \A j \in 1..(ret.steps - 1) : ~FinishedBy(ret.xs, j)
        /\ ret.steps < longest_label => FinishedBy(ret.xs, ret.steps)

\* C8 witness: two rows that emitted their end tokens at different steps, the
\* loop stopping at the later one, before the maximum.
C8_Witness ==
    /\ GreedyReturned
    /\ Len(ret.xs) = 2
    /\ ret.steps = 2
    /\ ret.steps < longest_label
    /\ ret.xs[1][2] = end_token_idx
    /\ ret.xs[2][2] # end_token_idx
    /\ ret.xs[2][3] = end_token_idx

ForcedReturned == ConverseReturned /\ ret.mode # "test"

\* C9: teacher forcing a response of length L feeds [start] followed by the
\* first L - 1 response tokens and yields exactly L logit positions; a
\* response of one token and the end token yields 2.
C9_TeacherForcedShiftsRight ==
    ForcedReturned =>
        \A r \in DOMAIN ret.before.response :
            LET resp == ret.before.response[r]
                L == Len(resp)
            IN /\ Len(ret.inputs[r]) = L
               /\ ret.inputs[r][1] = start_token_idx
               /\ \A j \in 2..L : ret.inputs[r][j] = resp[j - 1]
               /\ ret.positions = L
               /\ (L = 2 /\ resp[2] = end_token_idx) => ret.positions = 2

\* C9 witness: the response [word, end] was decoded from [start, word] at 2
\* positions.
C9_Witness ==
    /\ ForcedReturned
    /\ ret.before.response[1] = <<3, end_token_idx>>
    /\ ret.inputs[1] = <<start_token_idx, 3>>
    /\ ret.positions = 2

\* C10: no constructed model holds an extension strategy other than
\* 'Adaptive' and 'Random'.
C10_UnsupportedStrategyRejected ==
    phase = "ready" => extension_strategy \in {"Adaptive", "Random"}

----------------------------------------------------------------------------
(* Claims C11..C20 *)

\* C11: an unsupported dataset name or pooling mode (a missing value
\* included) makes construction fail before any component is built, so no
\* constructed model holds an unsupported dataset or pooling value.
C11_UnsupportedDatasetOrPoolingRejected ==
    /\ phase = "ready" =>
        /\ dataset \in {"HReDial", "HTGReDial", "OpenDialKG", "DuRecDial"}
        /\ pooling \in {"Attn", "Mean"}
        /\ graphs # NoGraphs
    /\ (phase # "new" /\ ~(/\ opt.dataset \in {"HReDial", "HTGReDial",
                                                "OpenDialKG", "DuRecDial"}
                           /\ opt.pooling \in {"Attn", "Mean"})) =>
        phase = "failed" /\ graphs = NoGraphs

\* a construction that failed on a missing pooling mode, nothing built
C11_Witness ==
    /\ phase = "failed"
    /\ opt.dataset \in SupportedDatasets
    /\ opt.pooling = NoneVal
    /\ graphs = NoGraphs

\* a call of _build_motif_adj_matrix has returned its three views
MotifBuilt == motif # NoMotif /\ motif.raised = "none"

MotifNodes == 0..(net.rows - 1)

Views == {"H_s", "H_j", "H_p"}

\* the neighbor set a dict gives a node: empty when the node is no key
Neighbors(adj, node) == IF node \in DOMAIN adj THEN adj[node] ELSE {}

EmptyRow(M, i) == \A j \in 0..(M.cols - 1) : M.at[i, j] = 0

\* C12 (as claimed): a node whose row of the relation matrix S is empty has
\* an empty neighbor set in H_s, H_j and H_p, whatever S and Y are.
C12_EmptyRelationRowHasNoNeighbors ==
    MotifBuilt =>
        \A i \in MotifNodes :
            EmptyRow(net, i) =>
                \A v \in Views : Neighbors(motif[v], i) = {}

\* C12 (amended): in each view, a node whose row of the view's raw weight
\* matrix (A1+..+A7, A8+A9, the thresholded A10) is empty is no key of the
\* view's dict and so has an empty neighbor set, whatever S and Y are.
C12_EmptyWeightRowHasNoNeighbors ==
    MotifBuilt =>
        \A v \in Views : \A i \in MotifNodes :
            EmptyRow(motif.raw[v], i) =>
                i \notin DOMAIN motif[v] /\ Neighbors(motif[v], i) = {}

\* a node with an empty weight row in a view other nodes have neighbors in,
\* although the relation matrix has an edge into the node
C12_Witness ==
    /\ MotifBuilt
    /\ \E v \in Views : \E i \in MotifNodes :
        /\ EmptyRow(motif.raw[v], i)
        /\ \E j \in MotifNodes : net.at[j, i] # 0
        /\ DOMAIN motif[v] # {}

\* C13: B = S (*) S^T is symmetric and the support of U = S - B does not
\* overlap the support of its transpose, for every non-negative weighted S.
C13_AsymmetricPartHasNoOverlap ==
    MotifBuilt =>
        \A i, j \in MotifNodes :
            /\ motif.B.at[i, j] = motif.B.at[j, i]
            /\ ~(motif.U.at[i, j] # 0 /\ motif.U.at[j, i] # 0)

Malformed(S, Y) == S.rows # S.cols \/ Y.rows # S.rows

\* C14: on a malformed input (S not square, or Y with another number of rows
\* than S) the builder fails before it has computed any product.
C14_MalformedInputFailsFast ==
    (motif # NoMotif /\ Malformed(net, inter)) =>
        motif.raised # "none" /\ motif.computed = <<>>

\* weight / (sum + 1e-7) >= 0.5, cross-multiplied by the sign of the
\* denominator; for integers the denominator is positive iff sum >= 0
NormalizedAtLeastHalf(weight, sum) ==
    \/ sum >= 0 /\ 2 * weight > sum
    \/ sum < 0 /\ 2 * weight <= sum

RowTotal(M, i) == row_sum(M, i, M.cols - 1)

\* C15: in each view v is a neighbor of u iff the raw weight of (u, v)
\* divided by (row sum of u + epsilon) is at least 0.5, and a node without
\* such an entry is no key of the dict.
C15_EdgeIffNormalizedWeightAtLeastHalf ==
    MotifBuilt =>
        \A view \in Views : \A u \in MotifNodes :
            /\ \A v \in MotifNodes :
                v \in Neighbors(motif[view], u)
                    <=> NormalizedAtLeastHalf(motif.raw[view].at[u, v],
                                              RowTotal(motif.raw[view], u))
            /\ u \in DOMAIN motif[view] => motif[view][u] # {}

\* a view with an edge, a weight that fails the cut, and a node that has
\* weights but no key
C15_Witness ==
    /\ MotifBuilt
    /\ \E view \in Views : \E u, v, w \in MotifNodes :
        /\ v \in Neighbors(motif[view], u)
        /\ motif.raw[view].at[u, w] # 0
        /\ w \notin Neighbors(motif[view], u)
    /\ \E view \in Views : \E u \in MotifNodes :
        /\ ~EmptyRow(motif.raw[view], u)
        /\ u \notin DOMAIN motif[view]

\* | total / (sum + 1e-7) - 1 | <= 1e-7 for integers total and sum below
\* 10^6 in size: the difference is (total - sum - 1e-7) / (sum + 1e-7), so
\* total = sum, and then 1e-7 / |sum + 1e-7| <= 1e-7 iff |sum + 1e-7| >= 1
WithinEpsilonOfOne(total, sum) ==
    total = sum /\ (sum >= 1 \/ sum <= -2)

\* the sum of row i of a normalized matrix, as (numerator, denominator part)
NormalizedRowWithinEpsilon(normalized, i) ==
    WithinEpsilonOfOne(RowTotal(normalized.weights, i), normalized.sums[i])

ZeroOne(M) ==
    \A i \in 0..(M.rows - 1) : \A j \in 0..(M.cols - 1) : M.at[i, j] \in {0, 1}

GatingReturned == ret.op = "encode_gating" /\ ret.returns = "all_emb"

Reorderings(n) ==
    {p \in [1..n -> 1..n] : \A a, b \in 1..n : a # b => p[a] # p[b]}

SetOf(list) == {list[j] : j \in DOMAIN list}

\* C17: encode_gating returns one row per queried node, row i made for
\* nodeList[i] from that node's own neighborhood in each view, and a
\* permuted nodeList yields the same rows, permuted the same way.
C17_EncodeIsOrderPreserving ==
    GatingReturned =>
        /\ Len(ret.rows) = Len(ret.lists)
        /\ \A k \in DOMAIN ret.lists :
            /\ ret.rows[k].raw = ret.lists[k]
            /\ \A v \in Views :
                /\ Head(ret.rows[k][v].mean_of) = ret.lists[k]
                /\ SetOf(ret.rows[k][v].mean_of) =
                       {ret.lists[k]} \cup Neighbors(graphs[ret.type][v], ret.lists[k])
        /\ \A p \in Reorderings(Len(ret.lists)) :
            all_emb([k \in DOMAIN ret.lists |-> ret.lists[p[k]]],
                    graphs[ret.type].H_j, graphs[ret.type].H_p,
                    graphs[ret.type].H_s).rows
                = [k \in DOMAIN ret.lists |-> ret.rows[p[k]]]

\* rows for a list that is not in ascending order, holds a node twice and
\* a node with neighbors
C17_Witness ==
    /\ GatingReturned
    /\ Len(ret.lists) >= 3
    /\ ret.lists[1] > ret.lists[2]
    /\ ret.lists[3] = ret.lists[1]
    /\ \E v \in Views : Len(ret.rows[1][v].mean_of) > 1

\* C18 (as claimed): encode_gating rejects an empty node list with an error,
\* and recommend() and converse() never hand it an empty item, entity or word
\* list.
C18_EmptyNodeListIsRejected ==
    /\ (ret.op = "encode_gating" /\ Len(ret.lists) = 0) => ret.raised # "none"
    /\ \A i \in DOMAIN ret.views :
        ~ret.views[i].cold_start =>
            /\ ret.views[i].items_repr.kind # "None"
            /\ ret.views[i].entitys_repr.kind # "None"
            /\ ret.views[i].words_repr.kind # "None"

\* C18 (amended): encode_gating returns None for an empty node list, without
\* an error, and fused rows for a non-empty one; encode_user special-cases
\* an empty item list, so it never hands encode_gating an empty item list,
\* while an empty entity or word list is handed over and yields None.
C18_EmptyNodeListYieldsNone ==
    /\ ret.op = "encode_gating" =>
        /\ ret.raised = "none"
        /\ Len(ret.lists) = 0 <=> ret.returns = "None"
        /\ Len(ret.lists) # 0 <=> (ret.returns = "all_emb" /\ ret.rows # <<>>)
    /\ \A i \in DOMAIN ret.views :
        ~ret.views[i].cold_start =>
            /\ ret.views[i].items_repr.kind = "fused"
            /\ ret.views[i].items_repr.nodes # {}
            /\ \A r \in {ret.views[i].entitys_repr, ret.views[i].words_repr} :
                r.kind = "None" <=> r.nodes = {}
            /\ ret.views[i].entitys_repr.kind = "None"
                   <=> flatten(ret.before.related_entities[i]) = {}
            /\ ret.views[i].words_repr.kind = "None"
                   <=> flatten(ret.before.context_entities[i]) = {}

\* recommend() has encoded a session with items but neither entities nor words
C18_Witness ==
    /\ RecommendReturned
    /\ \E i \in DOMAIN ret.views :
        /\ ~ret.views[i].cold_start
        /\ ret.views[i].entitys_repr.kind = "None"
        /\ ret.views[i].words_repr.kind = "None"
        /\ ret.user[i].items # {}

\* C19: once built, the hop adjacency dict and the motif adjacency dicts are
\* left as they are by every step of the model.
C19_AdjacencyIsNeverMutated ==
    [][graphs # NoGraphs => graphs' = graphs]_vars

\* recommend() has encoded a session whose nodes were looked up in the
\* views, one of them no key of a view, and the dicts are those built
C19_Witness ==
    /\ RecommendReturned
    /\ \E i \in DOMAIN ret.views :
        /\ ~ret.views[i].cold_start
        /\ \E n \in ret.views[i].items_repr.nodes :
            \E v \in Views : n \notin DOMAIN graphs.items[v]
        /\ \E n \in ret.views[i].items_repr.nodes :
            \E v \in Views : n \in DOMAIN graphs.items[v]
    /\ graphs = build_adjacent_matrix(dataset)

\* the positions of hyper_edge_index that carry edge id e
Incidences(index, e) ==
    {j \in DOMAIN index.hypergraph_edges : index.hypergraph_edges[j] = e}

\* C20: each view's hypergraph has one hyperedge per queried node, with ids
\* 0..n-1 in query order; hyperedge i holds queried node i and exactly its
\* neighbors in the view (the node alone when it is no key of the dict); the
\* node-id and edge-id lists are equally long; the subgraph pooled for node
\* i is the node set of hyperedge i.
C20_OneHyperedgePerQueriedNode ==
    GatingReturned =>
        \A v \in Views :
            LET index == ret.hyper[v]
                n == Len(ret.lists)
            IN /\ Len(index.hypergraph_nodes) = Len(index.hypergraph_edges)
               /\ SetOf(index.hypergraph_edges) = 0..(n - 1)
               /\ \A j \in 1..(Len(index.hypergraph_edges) - 1) :
                    index.hypergraph_edges[j] <= index.hypergraph_edges[j + 1]
               /\ \A i \in 1..n :
                    LET members == {index.hypergraph_nodes[j] :
                                      j \in Incidences(index, i - 1)}
                        neighbors == Neighbors(graphs[ret.type][v], ret.lists[i])
                    IN /\ members = {ret.lists[i]} \cup neighbors
                       /\ Cardinality(Incidences(index, i - 1))
                              = 1 + Cardinality(neighbors)
                       /\ ret.lists[i] \notin DOMAIN graphs[ret.type][v]
                              => members = {ret.lists[i]}
                       /\ SetOf(ret.rows[i][v].mean_of) = members

\* a view's hypergraph with a singleton hyperedge of a node that is no key
\* and a hyperedge of a node with neighbors
C20_Witness ==
    /\ GatingReturned
    /\ \E v \in Views : \E a, b \in DOMAIN ret.lists :
        /\ ret.lists[a] \notin DOMAIN graphs[ret.type][v]
        /\ Cardinality(Incidences(ret.hyper[v], a - 1)) = 1
        /\ ret.lists[b] \in DOMAIN graphs[ret.type][v]
        /\ Cardinality(Incidences(ret.hyper[v], b - 1)) > 1

----------------------------------------------------------------------------
(* flatten on its own *)

InitFlatten ==
    /\ IdleModel
    /\ \E inputs \in FlattenInputs : flat = [NoFlat EXCEPT !.inputs = inputs]
    /\ shuffle = NoShuffle
    /\ logits = NoLogits
    /\ system = NoSystem
    /\ evaluator = NewEvaluator(<<>>)

\* outputs = flatten(inputs)
Flatten ==
    /\ ~flat.called
    /\ \E outputs \in list_of_set(flatten_nested(flat.inputs)) :
        flat' = [flat EXCEPT !.called = TRUE, !.outputs = outputs]
    /\ UNCHANGED model_vars
    /\ UNCHANGED <<shuffle, logits, system, evaluator>>

FlattenNext == Flatten

SpecFlatten == InitFlatten /\ [][FlattenNext]_vars

----------------------------------------------------------------------------
(* hierarchical_self_supervision: the shuffles of one call *)

\* hierarchical_self_supervision(user_embeddings, edge_embeddings): every
\* torch.randperm advances the generator by one draw; the permutation a
\* shuffle applies is the one its draw gave
SelfSupervision ==
    /\ shuffle.calls < MaxCalls
    /\ \E shape \in EmbeddingShapes :
        LET d == shuffle_draws(shuffle.gen)
        IN \E cols \in [{d.user_rows, d.local_cols, d.global_cols} -> randperm(shape[2])],
              rows \in [{d.local_rows, d.global_rows} -> randperm(shape[1])] :
            /\ shuffle' = [gen |-> shuffle.gen + Cardinality(draws_of(d)),
                           calls |-> shuffle.calls + 1,
                           before |-> shuffle.gen,
                           draws |-> d,
                           user_rows |-> cols[d.user_rows],
                           local_cols |-> cols[d.local_cols],
                           local_rows |-> rows[d.local_rows],
                           global_cols |-> cols[d.global_cols],
                           global_rows |-> rows[d.global_rows]]
    /\ UNCHANGED model_vars
    /\ UNCHANGED <<flat, logits, system, evaluator>>

ShuffleNext == SelfSupervision

SpecShuffle == Init /\ [][ShuffleNext]_vars

----------------------------------------------------------------------------
(* The prediction of one decoded position *)

\* one position of decode_forced(..., resp), whatever the decoder and the
\* projection layers computed for it
DecodeForcedPosition ==
    /\ phase = "ready"
    /\ logits = NoLogits
    /\ \E token_logits \in TokenLogits, user_logits \in UserLogits,
          copy_logits \in CopyLogits, copy_mask \in CopyMasks :
        LET out == decode_forced_position(dataset, token_logits, user_logits,
                                          copy_logits, copy_mask)
        IN \E preds \in out.preds :
            logits' = [decoder |-> "forced", token_logits |-> token_logits,
                       user_logits |-> user_logits, copy_logits |-> copy_logits,
                       copy_mask |-> copy_mask, sum_logits |-> out.sum_logits,
                       preds |-> preds]
    /\ UNCHANGED model_vars
    /\ UNCHANGED <<flat, shuffle, system, evaluator>>

\* one pass of the loop of decode_greedy(...)
DecodeGreedyStep ==
    /\ phase = "ready"
    /\ logits = NoLogits
    /\ \E token_logits \in TokenLogits, user_logits \in UserLogits,
          copy_logits \in CopyLogits, copy_mask \in CopyMasks :
        LET out == decode_greedy_step(dataset, token_logits, user_logits,
                                      copy_logits, copy_mask)
        IN \E preds \in out.preds :
            logits' = [decoder |-> "greedy", token_logits |-> token_logits,
                       user_logits |-> user_logits, copy_logits |-> copy_logits,
                       copy_mask |-> copy_mask, sum_logits |-> out.sum_logits,
                       preds |-> preds]
    /\ UNCHANGED model_vars
    /\ UNCHANGED <<flat, shuffle, system, evaluator>>

LogitsNext ==
    \/ Construct
    \/ DecodeForcedPosition
    \/ DecodeGreedyStep

SpecLogits == Init /\ [][LogitsNext]_vars

----------------------------------------------------------------------------
(* BaseSystem: early stopping *)

\* system.init_optim(opt, parameters)
InitOptim ==
    /\ ~system.inited
    /\ \E o \in OptimOpts :
        system' = [init_optim(system, o) EXCEPT !.last.op = "init_optim"]
    /\ UNCHANGED model_vars
    /\ UNCHANGED <<flat, shuffle, logits, evaluator>>

\* system.reset_early_stop_state()
ResetEarlyStopState ==
    /\ system.inited
    /\ system.raised = "none"
    /\ system' = [reset_early_stop_state(system) EXCEPT
                    !.last = [NoSystem.last EXCEPT !.op = "reset_early_stop_state"]]
    /\ UNCHANGED model_vars
    /\ UNCHANGED <<flat, shuffle, logits, evaluator>>

\* system.early_stop(metric) after a validation epoch
EarlyStop ==
    /\ system.inited
    /\ system.raised = "none"
    /\ Len(system.seen) < MaxEpochs
    /\ \E metric \in Metrics :
        system' = [early_stop(system, metric) EXCEPT
                     !.seen = Append(system.seen, metric),
                     !.last.op = "early_stop",
                     !.last.best_valid = system.best_valid,
                     !.last.drop_cnt = system.drop_cnt]
    /\ UNCHANGED model_vars
    /\ UNCHANGED <<flat, shuffle, logits, evaluator>>

EarlyStopNext ==
    \/ InitOptim
    \/ ResetEarlyStopState
    \/ EarlyStop

SpecEarlyStop == Init /\ [][EarlyStopNext]_vars

----------------------------------------------------------------------------
(* BaseSystem: gradient accumulation *)

\* system.backward(loss) on the loss of a training batch
Backward ==
    /\ system.inited
    /\ system.raised = "none"
    /\ system.backward_calls < MaxBackward
    /\ system' = backward(system)
    /\ UNCHANGED model_vars
    /\ UNCHANGED <<flat, shuffle, logits, evaluator>>

OptimNext ==
    \/ InitOptim
    \/ Backward

SpecOptim == Init /\ [][OptimNext]_vars

----------------------------------------------------------------------------
(* StandardEvaluator *)

\* evaluator = StandardEvaluator(language, file_path)
InitEvaluator ==
    /\ IdleModel
    /\ flat = NoFlat
    /\ shuffle = NoShuffle
    /\ logits = NoLogits
    /\ system = NoSystem
    /\ \E file_path \in {<<>>, <<"rank.txt">>} : evaluator = NewEvaluator(file_path)

\* evaluator.rec_evaluate(ranks, label)
RecEvaluate ==
    /\ Len(evaluator.rankfile) < MaxRec
    /\ \E ranks \in RankLists :
        evaluator' = rec_evaluate(calling(evaluator, "rec_evaluate", ranks), ranks)
    /\ UNCHANGED model_vars
    /\ UNCHANGED <<flat, shuffle, logits, system>>

\* evaluator.gen_evaluate(hyp, refs, seq)
GenEvaluate ==
    /\ evaluator.dist_cnt < MaxGen
    /\ \E hyp \in {<<>>, <<"hi">>}, seq \in SeqArgs :
        evaluator' = gen_evaluate(calling(evaluator, "gen_evaluate", <<>>), hyp, seq)
    /\ UNCHANGED model_vars
    /\ UNCHANGED <<flat, shuffle, logits, system>>

\* evaluator.report(epoch, mode)
Report ==
    /\ evaluator' = report(calling(evaluator, "report", <<>>))
    /\ UNCHANGED model_vars
    /\ UNCHANGED <<flat, shuffle, logits, system>>

\* evaluator.reset_metrics()
ResetMetrics ==
    /\ evaluator' = reset_metrics(calling(evaluator, "reset_metrics", <<>>))
    /\ UNCHANGED model_vars
    /\ UNCHANGED <<flat, shuffle, logits, system>>

EvaluatorNext ==
    \/ RecEvaluate
    \/ GenEvaluate
    \/ Report
    \/ ResetMetrics

SpecEvaluator == InitEvaluator /\ [][EvaluatorNext]_vars

----------------------------------------------------------------------------
(* Claims C21..C30 *)

\* the sessions of the batch encode_user was handed that took the cold-start
\* branch (their related items as recommend() left them)
ColdStart(i) == flatten(batch.related_items[i]) = {}

\* C21: for a session whose flattened related-item list is empty, encode_user
\* calls encode_gating for no view and adds no self-supervision term; with a
\* non-empty word list the user vector is the pooling of the mode ('Attn':
\* self-attention, 'Mean': mean) over the raw embeddings of the word ids
\* alone, whatever the session's related entities are.
C21_ColdStartPoolsWordsAlone ==
    RecommendReturned =>
        \A i \in DOMAIN ret.user :
            ColdStart(i) =>
                /\ ret.views[i].gating_calls = <<>>
                /\ \A t \in DOMAIN ret.ss_loss : ret.ss_loss[t].session # i
                /\ Len(batch.context_entities[i]) > 0 =>
                    ret.user[i] = UserVector(
                        IF pooling = "Attn" THEN "kg_attn" ELSE "mean",
                        {}, {}, {}, batch.context_entities[i])

\* a cold-start session with words and related entities, pooled under
\* 'Attn', next to a session that was encoded and has loss terms
C21_Witness ==
    /\ RecommendReturned
    /\ pooling = "Attn"
    /\ \E i, j \in DOMAIN ret.user :
        /\ ColdStart(i)
        /\ Len(batch.context_entities[i]) > 0
        /\ Len(batch.related_entities[i]) > 0
        /\ ret.user[i].op = "kg_attn"
        /\ ~ColdStart(j)
        /\ \E t \in DOMAIN ret.ss_loss : ret.ss_loss[t].session = j

\* the terms encode_user computes for session i: one per non-empty view
TermsOf(i) ==
    <<ss_term(i, "items")>>
    \o (IF flatten(batch.related_entities[i]) # {}
        THEN <<ss_term(i, "entitys")>> ELSE <<>>)
    \o (IF flatten(batch.context_entities[i]) # {}
        THEN <<ss_term(i, "words")>> ELSE <<>>)

\* C26: the ss_loss encode_user returns holds the terms of the last session
\* of the batch that is not cold-start, one per non-empty view, and nothing
\* of any earlier session; it is 0.0 when every session is cold-start.
C26_LossIsOfLastEncodedSession ==
    RecommendReturned =>
        LET warm == {i \in DOMAIN ret.user : ~ColdStart(i)}
        IN IF warm = {} THEN ret.ss_loss = <<>>
           ELSE ret.ss_loss = TermsOf(CHOOSE i \in warm : \A j \in warm : j <= i)

\* two encoded sessions, the first with an entity view: its terms are not in
\* the returned loss
C26_Witness ==
    /\ RecommendReturned
    /\ Len(ret.user) = 2
    /\ ~ColdStart(1) /\ ~ColdStart(2)
    /\ ret.views[1].entitys_repr.kind = "fused"
    /\ ret.ss_loss # <<>>
    /\ \A t \in DOMAIN ret.ss_loss : ret.ss_loss[t].session = 2

\* C25: under 'Random' recommend() appends k = min(max(2, floor(|related| /
\* 4)), |extensions|) entries of the session's extension list, taken at k
\* distinct positions, to the related items, and the sampling raises for no
\* lengths of the two lists, an empty extension list (k = 0) included.
C25_RandomSamplesWithoutReplacement ==
    (ret.op = "recommend" /\ extension_strategy = "Random") =>
        /\ ret.raised = "none"
        /\ \A i \in DOMAIN batch.related_items :
            LET old == ret.before.related_items[i]
                ext == ret.before.extended_items[i]
                new == batch.related_items[i]
                k == Min(Max(2, FloorQuarter(Len(old))), Len(ext))
            IN /\ Len(new) = Len(old) + k
               /\ SubSeq(new, 1, Len(old)) = old
               /\ \E p \in [1..k -> 1..Len(ext)] :
                    /\ \A a, b \in 1..k : a # b => p[a] # p[b]
                    /\ \A j \in 1..k : new[Len(old) + j] = ext[p[j]]
               /\ Len(ext) = 0 => new = old

\* a 'Random' call that appended three of four candidates, not the ranked
\* prefix and not in ranked order
C25_Witness ==
    /\ RecommendReturned
    /\ extension_strategy = "Random"
    /\ Len(ret.before.related_items[1]) = 12
    /\ Len(ret.before.extended_items[1]) = 4
    /\ Appended(1) = 3
    /\ batch.related_items[1][13] = ret.before.extended_items[1][4]
    /\ batch.related_items[1][14] = ret.before.extended_items[1][1]

\* C24: flatten(inputs) returns a list without duplicates whose elements
\* are exactly the members of the lists in inputs and the elements of inputs
\* that are no lists; as a set it is the same for every reordering and
\* repetition of inputs, and flattening the result again gives the same set.
C24_FlattenIsDeduplicatedUnion ==
    flat.called =>
        LET out == flat.outputs
            again == [j \in DOMAIN out |-> Id(out[j])]
        IN /\ \A a, b \in DOMAIN out : a # b => out[a] # out[b]
           /\ \A x \in 0..2 :
                x \in SetOf(out) <=>
                    \E j \in DOMAIN flat.inputs :
                        \/ ~flat.inputs[j].is_list /\ flat.inputs[j].value = x
                        \/ /\ flat.inputs[j].is_list
                           /\ \E k \in DOMAIN flat.inputs[j].value :
                                flat.inputs[j].value[k] = x
           /\ SetOf(out) \subseteq 0..2
           /\ \A p \in Reorderings(Len(flat.inputs)) :
                flatten_nested([j \in DOMAIN flat.inputs |-> flat.inputs[p[j]]])
                    = SetOf(out)
           /\ flatten_nested(flat.inputs \o flat.inputs) = SetOf(out)
           /\ flatten_nested(again) = SetOf(out)

\* ids and lists mixed, an id twice in one list and once more on its own
C24_Witness ==
    /\ flat.called
    /\ flat.inputs = <<IdList(<<2, 2, 0>>), Id(0), IdList(<<>>)>>
    /\ flat.outputs = <<2, 0>>

\* C22: each call of hierarchical_self_supervision takes a draw of its own
\* from the generator for every shuffle (the row shuffle of the user
\* embeddings, the column and the row shuffle of the local negative, the
\* column and the row shuffle of the global negative): no draw serves two
\* shuffles of a call and none is one an earlier call used.
C22_EveryShuffleDrawsAfresh ==
    shuffle.calls > 0 =>
        /\ Cardinality(draws_of(shuffle.draws)) = 5
        /\ \A k \in draws_of(shuffle.draws) : shuffle.before < k /\ k <= shuffle.gen
        /\ shuffle.gen = 5 * shuffle.calls
        /\ shuffle.before = 5 * (shuffle.calls - 1)

\* a second call whose global negative is shuffled by other permutations,
\* of columns and of rows, than its local negative
C22_Witness ==
    /\ shuffle.calls = 2
    /\ shuffle.local_cols # shuffle.global_cols
    /\ shuffle.local_rows # shuffle.global_rows
    /\ shuffle.user_rows # shuffle.local_cols

\* the raw weight row of a node has no negative entry
NonNegativeRow(M, i) == \A j \in 0..(M.cols - 1) : M.at[i, j] >= 0

\* C27: a node whose raw weight row has no negative entry has at most one
\* neighbor in the view built from it, and every node has at most one
\* neighbor in the purposive view H_p, whose raw weights are all above 1.
C27_NonNegativeRowHasAtMostOneNeighbor ==
    MotifBuilt =>
        /\ \A view \in Views : \A u \in MotifNodes :
            NonNegativeRow(motif.raw[view], u) =>
                Cardinality(Neighbors(motif[view], u)) <= 1
        /\ \A u \in MotifNodes :
            /\ NonNegativeRow(motif.raw.H_p, u)
            /\ Cardinality(Neighbors(motif.H_p, u)) <= 1

\* a non-negative row with two equal weights and so no neighbor, one with
\* two weights of which the larger alone passes, and a purposive row
\* with a neighbor
C27_Witness ==
    /\ MotifBuilt
    /\ \E view \in Views : \E u, v, w \in MotifNodes :
        /\ v # w
        /\ NonNegativeRow(motif.raw[view], u)
        /\ motif.raw[view].at[u, v] > 0
        /\ motif.raw[view].at[u, v] = motif.raw[view].at[u, w]
        /\ Neighbors(motif[view], u) = {}
    /\ \E view \in Views : \E u, v, w \in MotifNodes :
        /\ NonNegativeRow(motif.raw[view], u)
        /\ motif.raw[view].at[u, w] > 0
        /\ motif.raw[view].at[u, v] > motif.raw[view].at[u, w]
        /\ Neighbors(motif[view], u) = {v}
    /\ \E u \in MotifNodes : Cardinality(Neighbors(motif.H_p, u)) = 1

\* the copy logit that enters the sum at token v
CopyTerm(v) ==
    IF dataset = "HReDial" /\ ~logits.copy_mask[v] THEN 0 ELSE logits.copy_logits[v]

\* C23: in decode_forced and in decode_greedy the prediction of a position
\* is a token at which token logit + user logit + copy logit is largest,
\* the copy logit counting as zero at the tokens the copy mask does not flag
\* when the dataset is HReDial and counting as it is for the other datasets.
C23_PredictionIsArgMaxOfMaskedSum ==
    logits.decoder # "none" =>
        /\ dataset \in SupportedDatasets
        /\ \A v \in Vocabulary :
            logits.sum_logits[v] =
                logits.token_logits[v] + logits.user_logits[v] + CopyTerm(v)
        /\ \A v \in Vocabulary :
            logits.sum_logits[v] <= logits.sum_logits[logits.preds]

\* a greedy step on HReDial whose prediction the unmasked copy logits would
\* not have given
C23_Witness ==
    /\ logits.decoder = "greedy"
    /\ dataset = "HReDial"
    /\ \E v \in Vocabulary :
        /\ ~logits.copy_mask[v]
        /\ sum_logits(logits.token_logits, logits.user_logits, logits.copy_logits)[v]
            > sum_logits(logits.token_logits, logits.user_logits, logits.copy_logits)[logits.preds]

\* the metric times stop_mode: larger is better
Signed(k) == system.seen[k] * system.stop_mode

\* call k of early_stop since the reset strictly improved on all before it
StrictlyImproved(k) == \A j \in 1..(k - 1) : Signed(k) > Signed(j)

\* the calls since the last strict improvement, the last call included
CallsSinceImprovement ==
    Cardinality({k \in 1..Len(system.seen) :
                    \A j \in k..Len(system.seen) : ~StrictlyImproved(j)})

\* C28: with early stopping enabled a call of early_stop returns True iff it
\* does not strictly improve on the best metric so far (a tie improves
\* nothing) and is at least the impatience-th such call in a row; a strictly
\* improving call makes its metric best_valid, zeroes drop_cnt and returns
\* False; best_valid is the best metric seen since the reset; with early
\* stopping disabled a call returns False and changes nothing.
C28_EarlyStopAfterImpatienceCalls ==
    (system.last.op = "early_stop") =>
        IF system.need_early_stop
        THEN LET n == Len(system.seen)
             IN /\ system.last.returned = "True"
                    <=> /\ ~StrictlyImproved(n)
                        /\ CallsSinceImprovement >= system.impatience
                /\ StrictlyImproved(n) =>
                    /\ system.best_valid = <<system.seen[n]>>
                    /\ system.drop_cnt = 0
                    /\ system.last.returned = "False"
                /\ system.drop_cnt = CallsSinceImprovement
                /\ \E k \in 1..n :
                    /\ system.best_valid = <<system.seen[k]>>
                    /\ \A j \in 1..n : Signed(j) <= Signed(k)
        ELSE /\ system.last.returned = "False"
             /\ system.best_valid = system.last.best_valid
             /\ system.drop_cnt = system.last.drop_cnt

\* early_stop returns True on the second call in a row that does not
\* improve, a tie with the best metric, after a strict improvement
C28_Witness ==
    /\ system.last.op = "early_stop"
    /\ system.need_early_stop
    /\ system.last.returned = "True"
    /\ system.impatience = 2
    /\ system.stop_mode = 0 - 1
    /\ Len(system.seen) = 4
    /\ StrictlyImproved(2)
    /\ ~StrictlyImproved(3)
    /\ system.seen[4] = system.best_valid[1]

\* C29: with update_freq = N > 1 the optimizer steps on the calls N, 2N,
\* 3N, ... of backward() since init_optim and on no other, zeroes the
\* gradients on the first call and on the call after each step and on no
\* other, and so each step applies the gradients of exactly N backward
\* passes; with update_freq = 1 every call zeroes the gradients and steps.
C29_StepEveryUpdateFreqCalls ==
    (system.last.op = "backward") =>
        LET N == system.update_freq
            k == system.backward_calls
        IN IF N > 1
           THEN /\ system.last.stepped <=> k % N = 0
                /\ system.last.zeroed <=> (k = 1 \/ (k - 1) % N = 0)
                /\ system.steps = k \div N
                /\ system.last.stepped => system.last.stepped_with = N
           ELSE /\ N = 1
                /\ system.last.stepped
                /\ system.last.zeroed
                /\ system.last.stepped_with = 1
                /\ system.steps = k

\* the second step of a run that accumulates three passes per step
C29_Witness ==
    /\ system.last.op = "backward"
    /\ system.update_freq = 3
    /\ system.backward_calls = 6
    /\ system.last.stepped
    /\ ~system.last.zeroed
    /\ system.steps = 2

\* C30: whatever calls of gen_evaluate, rec_evaluate, report and
\* reset_metrics were made, dist_set has a key only if dist_cnt >= 1, so
\* report() has not divided by zero; reset_metrics leaves dist_set empty and
\* dist_cnt 0; report() leaves dist_set and dist_cnt as they were and
\* rankfile empty; rec_evaluate appends the first 50 ranks at most.
C30_DistSetNeedsDistCnt ==
    /\ DOMAIN evaluator.dist_set # {} => evaluator.dist_cnt >= 1
    /\ evaluator.last.raised # "ZeroDivisionError"
    /\ evaluator.last.op = "reset_metrics" =>
        DOMAIN evaluator.dist_set = {} /\ evaluator.dist_cnt = 0
    /\ evaluator.last.op = "report" =>
        /\ evaluator.dist_set = evaluator.last.dist_set
        /\ evaluator.dist_cnt = evaluator.last.dist_cnt
        /\ evaluator.rankfile = <<>>
    /\ evaluator.last.op = "rec_evaluate" =>
        \E n \in 0..50 :
            /\ n <= Len(evaluator.last.ranks)
            /\ evaluator.rankfile =
                evaluator.last.rankfile \o SubSeq(evaluator.last.ranks, 1, n)

\* a report that wrote the 50 ranks kept of a recommendation of 51, with
\* two generated sequences counted
C30_Witness ==
    /\ evaluator.last.op = "report"
    /\ evaluator.dist_cnt = 2
    /\ DOMAIN evaluator.dist_set = {1, 2}
    /\ Len(evaluator.last.rankfile) = 50
    /\ evaluator.last.wrote

============================================================================
